---- MODULE Spec2Model ----
(***************************************************************************)
(* Model of the gameplay screen (GameScreen) of the text adventure: the    *)
(* streamed turn (executeAction), the reconciliation of a parsed turn      *)
(* result into the game state, the lore-update and level-up gates and the  *)
(* image side tasks.                                                       *)
(*                                                                         *)
(* Text is a sequence of string pieces.  Streamed text is split into       *)
(* single characters, so that the narrative pattern and JSON.parse work on *)
(* it character by character; fixed messages are one piece.                *)
(***************************************************************************)
EXTENDS Integers, Sequences, FiniteSets, TLC

(***************************************************************************)
(* Characters                                                              *)
(***************************************************************************)
QUOTE == "\""
BSLASH == "\\"
NEWLINE == "\n"
TAB == "\t"

\* JavaScript \s, restricted to the characters of the model's alphabet.
IsSpace(c) == c \in {" ", TAB, NEWLINE, "\r"}

\* Characters the dot of a regular expression does not match.
IsLineTerminator(c) == c \in {NEWLINE, "\r"}

\* Characters JSON does not allow unescaped inside a string.
IsControl(c) == c \in {NEWLINE, TAB, "\r"}

\* JSON whitespace.
IsJsonSpace(c) == c \in {" ", TAB, NEWLINE, "\r"}

RECURSIVE Flatten(_)
\* accumulatedJson += chunk.text, over a sequence of chunks.
Flatten(frags) ==
    IF frags = <<>> THEN <<>> ELSE Head(frags) \o Flatten(Tail(frags))

(***************************************************************************)
(* The narrative pattern of the stream loop: the key narrative in quotes,  *)
(* white space, a colon, white space, and a quoted body made of escape     *)
(* pairs and of characters other than the quote and the backslash.         *)
(***************************************************************************)
NarrativeKey == <<QUOTE, "n", "a", "r", "r", "a", "t", "i", "v", "e", QUOTE>>

RECURSIVE SkipSpaces(_, _)
\* \s* : the first position at or after p that holds no white space.
SkipSpaces(s, p) ==
    IF p <= Len(s) /\ IsSpace(s[p]) THEN SkipSpaces(s, p + 1) ELSE p

RECURSIVE ScanBodyOpenEnded(_, _)
\* Mutant of ScanBody: a body that the buffer cuts short counts as closed
\* where the buffer ends.
ScanBodyOpenEnded(s, p) ==
    IF p > Len(s) THEN p
    ELSE IF s[p] = QUOTE THEN p
    ELSE IF s[p] = BSLASH
         THEN IF p + 1 <= Len(s) /\ ~IsLineTerminator(s[p + 1])
              THEN ScanBodyOpenEnded(s, p + 2)
              ELSE 0
    ELSE ScanBodyOpenEnded(s, p + 1)

RECURSIVE ScanBody(_, _)
\* The quoted body from position p: the position of the closing quote,
\* or 0 when the body is not closed.  The two alternatives start with
\* different characters, so backtracking never finds another match.
ScanBody(s, p) ==
    IF p > Len(s) THEN 0
    ELSE IF s[p] = QUOTE THEN p
    ELSE IF s[p] = BSLASH
         THEN IF p + 1 <= Len(s) /\ ~IsLineTerminator(s[p + 1])
              THEN ScanBody(s, p + 2)
              ELSE 0
    ELSE ScanBody(s, p + 1)

\* The pattern anchored at position i: <<first, last>> of the captured
\* group (first = last + 1 for an empty capture), or <<0, 0>>.
MatchAt(s, i) ==
    IF i + Len(NarrativeKey) - 1 > Len(s) THEN <<0, 0>>
    ELSE IF SubSeq(s, i, i + Len(NarrativeKey) - 1) # NarrativeKey THEN <<0, 0>>
    ELSE LET j == SkipSpaces(s, i + Len(NarrativeKey))
         IN  IF j > Len(s) \/ s[j] # ":" THEN <<0, 0>>
             ELSE LET k == SkipSpaces(s, j + 1)
                  IN  IF k > Len(s) \/ s[k] # QUOTE THEN <<0, 0>>
                      ELSE LET e == ScanBody(s, k + 1)
                           IN  IF e = 0 THEN <<0, 0>> ELSE <<k + 1, e - 1>>

RECURSIVE MatchFrom(_, _)
\* String.prototype.match without the g flag: the leftmost match.
MatchFrom(s, i) ==
    IF i > Len(s) THEN <<0, 0>>
    ELSE IF MatchAt(s, i) # <<0, 0>> THEN MatchAt(s, i)
    ELSE MatchFrom(s, i + 1)

\* accumulatedJson.match(...): [matched, group] where group is
\* narrativeMatch[1].
NarrativeMatch(s) ==
    LET m == MatchFrom(s, 1)
    IN  IF m = <<0, 0>> THEN [matched |-> FALSE, group |-> <<>>]
        ELSE [matched |-> TRUE, group |-> SubSeq(s, m[1], m[2])]

(***************************************************************************)
(* JSON.parse                                                              *)
(***************************************************************************)
\* The character an escape sequence stands for, or the empty string when JSON has no
\* such escape.  (\uXXXX is outside the model's alphabet.)
Unescape(c) ==
    CASE c = QUOTE -> QUOTE
      [] c = BSLASH -> BSLASH
      [] c = "/" -> "/"
      [] c = "n" -> NEWLINE
      [] c = "t" -> TAB
      [] c = "r" -> "\r"
      [] OTHER -> ""

RECURSIVE DecodeBody(_, _, _)
\* The characters of a JSON string from position p up to its closing quote:
\* [ok, val, next] with next the position after the closing quote.
DecodeBody(s, p, acc) ==
    IF p > Len(s) THEN [ok |-> FALSE, val |-> <<>>, next |-> 0]
    ELSE IF s[p] = QUOTE THEN [ok |-> TRUE, val |-> acc, next |-> p + 1]
    ELSE IF IsControl(s[p]) THEN [ok |-> FALSE, val |-> <<>>, next |-> 0]
    ELSE IF s[p] = BSLASH
         THEN IF p + 1 <= Len(s) /\ Unescape(s[p + 1]) # ""
              THEN DecodeBody(s, p + 2, Append(acc, Unescape(s[p + 1])))
              ELSE [ok |-> FALSE, val |-> <<>>, next |-> 0]
    ELSE DecodeBody(s, p + 1, Append(acc, s[p]))

\* JSON.parse of the group put in quotes: [ok, val]; ok is FALSE where it throws.
ParseQuoted(group) ==
    LET s == <<QUOTE>> \o group \o <<QUOTE>>
        r == DecodeBody(s, 2, <<>>)
    IN  IF r.ok /\ r.next = Len(s) + 1
        THEN [ok |-> TRUE, val |-> r.val]
        ELSE [ok |-> FALSE, val |-> <<>>]

RECURSIVE SkipJsonSpaces(_, _)
SkipJsonSpaces(s, p) ==
    IF p <= Len(s) /\ IsJsonSpace(s[p]) THEN SkipJsonSpaces(s, p + 1) ELSE p

NoDoc == [ok |-> FALSE, members |-> <<>>]

RECURSIVE ParseMembers(_, _, _)
\* The members of an object from position p (after a brace or comma): string
\* keys with string values, in document order.
ParseMembers(s, p, acc) ==
    LET a == SkipJsonSpaces(s, p)
    IN  IF a > Len(s) \/ s[a] # QUOTE THEN NoDoc
        ELSE LET key == DecodeBody(s, a + 1, <<>>)
             IN  IF ~key.ok THEN NoDoc
                 ELSE LET b == SkipJsonSpaces(s, key.next)
                      IN  IF b > Len(s) \/ s[b] # ":" THEN NoDoc
                          ELSE LET c == SkipJsonSpaces(s, b + 1)
                               IN  IF c > Len(s) \/ s[c] # QUOTE THEN NoDoc
                                   ELSE LET val == DecodeBody(s, c + 1, <<>>)
                                        IN  IF ~val.ok THEN NoDoc
                                            ELSE LET d == SkipJsonSpaces(s, val.next)
                                                     acc2 == Append(acc, <<key.val, val.val>>)
                                                 IN  IF d > Len(s) THEN NoDoc
                                                     ELSE IF s[d] = "," THEN ParseMembers(s, d + 1, acc2)
                                                     ELSE IF s[d] = "}" /\ SkipJsonSpaces(s, d + 1) = Len(s) + 1
                                                          THEN [ok |-> TRUE, members |-> acc2]
                                                     ELSE NoDoc

\* Mutant of ParseJSON: a lenient parse that never throws and takes the
\* narrative that the pattern finds in the buffer.
ParseJSONLenient(s) ==
    [ok |-> TRUE,
     members |-> IF NarrativeMatch(s).matched
                 THEN <<<<SubSeq(NarrativeKey, 2, Len(NarrativeKey) - 1),
                          NarrativeMatch(s).group>>>>
                 ELSE <<>>]

\* JSON.parse(accumulatedJson) for a document that is one object whose
\* members are strings: [ok, members]; ok is FALSE where JSON.parse throws.
ParseJSON(s) ==
    LET a == SkipJsonSpaces(s, 1)
    IN  IF a > Len(s) \/ s[a] # "{" THEN NoDoc
        ELSE LET b == SkipJsonSpaces(s, a + 1)
             IN  IF b <= Len(s) /\ s[b] = "}"
                 THEN IF SkipJsonSpaces(s, b + 1) = Len(s) + 1
                      THEN [ok |-> TRUE, members |-> <<>>]
                      ELSE NoDoc
                 ELSE ParseMembers(s, a + 1, <<>>)

\* A property that the object does not have reads as undefined.
Undefined == <<"undefined">>

RECURSIVE Member(_, _)
\* doc[key]: the last member with that key wins, as in JSON.parse.
Member(members, key) ==
    IF members = <<>> THEN Undefined
    ELSE LET last == members[Len(members)]
         IN  IF last[1] = key THEN last[2]
             ELSE Member(SubSeq(members, 1, Len(members) - 1), key)

(***************************************************************************)
(* Bounds of the model                                                     *)
(***************************************************************************)
\* Number of turns that may be started in one session.
MaxTurns == 2

\* Number of requests left outstanding by failed stages of the wizard.
MaxOrphans == 1

(***************************************************************************)
(* Story log entries (StoryEntry).  An optional field that is absent is    *)
(* the empty string; an optional value is a sequence of length 0 or 1.     *)
(* req is not a field of the program: it records which image request       *)
(* created a placeholder (-1 for any other entry).                         *)
(***************************************************************************)
NoReq == 0 - 1

Entry(type, text, characterName) ==
    [type |-> type, text |-> text, characterName |-> characterName,
     imageIsLoading |-> FALSE, imageUrl |-> <<>>, req |-> NoReq]

\* { type: 'narrator', text: '', imageIsLoading: true }
placeholderEntry(r) ==
    [type |-> "narrator", text |-> <<>>, characterName |-> "",
     imageIsLoading |-> TRUE, imageUrl |-> <<>>, req |-> r]

\* An empty slot of a JavaScript array, left by an assignment past its end.
Hole == Entry("hole", <<>>, "")

\* What an empty slot becomes when the array is spread: undefined.
UndefinedEntry == Entry("undefined", <<>>, "")

\* [...log]
Spread(log) ==
    [i \in 1..Len(log) |-> IF log[i] = Hole THEN UndefinedEntry ELSE log[i]]

\* log[i] is truthy, for a 1-based position i.
HasEntry(log, i) ==
    i >= 1 /\ i <= Len(log) /\ log[i] # Hole /\ log[i] # UndefinedEntry

RECURSIVE Holes(_)
Holes(n) == IF n <= 0 THEN <<>> ELSE <<Hole>> \o Holes(n - 1)

\* log[i] = e on a copy of log, for a 1-based position i: an assignment past
\* the end extends the array and leaves empty slots in between.
AssignAt(log, i, e) ==
    IF i <= Len(log) THEN [log EXCEPT ![i] = e]
    ELSE log \o Holes(i - Len(log) - 1) \o <<e>>

RECURSIVE SelectEntries(_, _)
SelectEntries(log, keep) ==
    IF log = <<>> THEN <<>>
    ELSE IF keep[1] THEN <<Head(log)>> \o SelectEntries(Tail(log), Tail(keep))
    ELSE SelectEntries(Tail(log), Tail(keep))

\* log.filter(entry => !entry.imageIsLoading): filter skips empty slots.
WithoutLoading(log) ==
    SelectEntries(log, [i \in 1..Len(log) |-> log[i] # Hole /\ ~log[i].imageIsLoading])

\* log.map(entry => entry.imageIsLoading ? {...entry, imageIsLoading: false, imageUrl} : entry)
WithImage(log, imageUrl) ==
    [i \in 1..Len(log) |->
        IF log[i].imageIsLoading
        THEN [log[i] EXCEPT !.imageIsLoading = FALSE, !.imageUrl = imageUrl]
        ELSE log[i]]

\* Rendering the story log reads entry.text of every entry that map visits:
\* it throws on undefined, and the component tree is unmounted.
RenderThrows(log) == \E i \in 1..Len(log) : log[i] = UndefinedEntry

(***************************************************************************)
(* Quests (the reconciliation of newQuest and questUpdate)                 *)
(***************************************************************************)
\* An objective without sub-objectives has subObjectives = << >>: the code
\* treats an absent list and an empty list alike (map and every of an
\* empty list change nothing and hold).
Objective(text, isCompleted, subObjectives) ==
    [text |-> text, isCompleted |-> isCompleted, subObjectives |-> subObjectives]

Quest(title, status, objectives) ==
    [title |-> title, description |-> "side quest", status |-> status,
     objectives |-> objectives]

\* objectives.every(o => o.isCompleted)
EveryCompleted(objectives) ==
    \A i \in 1..Len(objectives) : objectives[i].isCompleted

\* Mutant of updateObjectivesRecursively: the flag of a parent is computed
\* from its sub-objectives whether or not anything changed below it.
RECURSIVE updateObjectivesReevaluating(_, _)
updateObjectivesReevaluating(objectives, text) ==
    [i \in 1..Len(objectives) |->
        LET o == objectives[i]
        IN  IF o.text = text THEN [o EXCEPT !.isCompleted = TRUE]
            ELSE IF o.subObjectives # <<>>
                 THEN LET newSubObjectives ==
                              updateObjectivesReevaluating(o.subObjectives, text)
                      IN  [o EXCEPT !.subObjectives = newSubObjectives,
                                    !.isCompleted = EveryCompleted(newSubObjectives)]
            ELSE o]

\* Mutant of updateObjectivesRecursively: the changed sub-objectives are
\* stored and the flag of the parent is left as it was.
RECURSIVE updateObjectivesKeepingParents(_, _)
updateObjectivesKeepingParents(objectives, text) ==
    [i \in 1..Len(objectives) |->
        LET o == objectives[i]
        IN  IF o.text = text THEN [o EXCEPT !.isCompleted = TRUE]
            ELSE [o EXCEPT !.subObjectives =
                               updateObjectivesKeepingParents(o.subObjectives, text)]]

RECURSIVE updateObjectivesRecursively(_, _)
\* wasChanged compares the JSON text of the two lists; the spreads keep the
\* order of the keys, so the texts differ exactly when the values do.
updateObjectivesRecursively(objectives, text) ==
    [i \in 1..Len(objectives) |->
        LET o == objectives[i]
        IN  IF o.text = text THEN [o EXCEPT !.isCompleted = TRUE]
            ELSE IF o.subObjectives # <<>>
                 THEN LET newSubObjectives ==
                              updateObjectivesRecursively(o.subObjectives, text)
                          wasChanged == newSubObjectives # o.subObjectives
                          allSubsComplete == EveryCompleted(newSubObjectives)
                      IN  IF wasChanged
                          THEN [o EXCEPT !.subObjectives = newSubObjectives,
                                         !.isCompleted = allSubsComplete]
                          ELSE o
            ELSE o]

RECURSIVE areAllObjectivesComplete(_)
areAllObjectivesComplete(objectives) ==
    \A i \in 1..Len(objectives) :
        /\ objectives[i].isCompleted
        /\ areAllObjectivesComplete(objectives[i].subObjectives)

\* The quest list with a newQuest of the response appended.
AppendNewQuest(quests, newQuest) ==
    IF newQuest # <<>> THEN Append(quests, newQuest[1]) ELSE quests

\* One quest under a questUpdate; newStatus is the empty string when absent.
UpdateQuest(q, questUpdate) ==
    IF q.title = questUpdate.questTitle
    THEN LET updatedObjectives ==
                 updateObjectivesRecursively(q.objectives, questUpdate.objectiveText)
             allComplete == areAllObjectivesComplete(updatedObjectives)
             finalStatus ==
                 IF questUpdate.newStatus # "" THEN questUpdate.newStatus
                 ELSE IF allComplete THEN "completed" ELSE q.status
         IN  [q EXCEPT !.objectives = updatedObjectives, !.status = finalStatus]
    ELSE q

\* updatedQuests of the final commit.
ReconcileQuests(quests, response) ==
    LET withNew == AppendNewQuest(quests, response.newQuest)
    IN  IF response.questUpdate # <<>>
        THEN [i \in 1..Len(withNew) |-> UpdateQuest(withNew[i], response.questUpdate[1])]
        ELSE withNew

(***************************************************************************)
(* Character                                                               *)
(***************************************************************************)
\* health, mana, stamina of characterUpdate overwrite the current values.
ApplyStats(character, characterUpdate) ==
    IF characterUpdate = <<>> THEN character
    ELSE LET u == characterUpdate[1]
         IN  [character EXCEPT
                 !.health = IF u.health # <<>> THEN u.health[1] ELSE @,
                 !.mana = IF u.mana # <<>> THEN u.mana[1] ELSE @,
                 !.stamina = IF u.stamina # <<>> THEN u.stamina[1] ELSE @]

\* response.characterUpdate?.xpGained, 0 when absent.
XpGainedOf(characterUpdate) ==
    IF characterUpdate = <<>> \/ characterUpdate[1].xpGained = <<>> THEN 0
    ELSE characterUpdate[1].xpGained[1]

\* if (xpGained) holds for every number but 0.
ApplyXp(character, characterUpdate) ==
    IF XpGainedOf(characterUpdate) # 0
    THEN [character EXCEPT !.xp = @ + XpGainedOf(characterUpdate)]
    ELSE character

\* The final commit calls setIsLevelingUp(true).
TriggersLevelUp(character, characterUpdate) ==
    /\ XpGainedOf(characterUpdate) # 0
    /\ character.xp + XpGainedOf(characterUpdate) >= character.xpToNextLevel

\* updatedCharacter of the final commit.
ReconcileCharacter(character, response) ==
    ApplyXp(ApplyStats(character, response.characterUpdate), response.characterUpdate)

(***************************************************************************)
(* Streams of the model gateway: the fragments the service sends, and what *)
(* the whole document is when read by hand (expect), against which the     *)
(* parse of the accumulated buffer is compared.  The text of a stream      *)
(* spells the members narrative and newLocation of the document; the       *)
(* members that are not strings are carried beside it as the payload.      *)
(* previews lists, per fragment, the narrative the stream loop is to show  *)
(* once that fragment has arrived: << >> for none, <<text>> for a text.    *)
(***************************************************************************)
\* The narrative split over three fragments.
StreamHello ==
    [name |-> "StreamHello",
     frags |->
      <<<<"{", QUOTE, "n", "a", "r", "r", "a", "t", "i", "v", "e", QUOTE,
          ":", QUOTE, "H", "e", "l">>,
      <<"l", "o", " ", "w", "o", "r">>,
      <<"l", "d", QUOTE, ",", QUOTE, "n", "e", "w", "L", "o", "c", "a",
          "t", "i", "o", "n", QUOTE, ":", QUOTE, "X", QUOTE, "}">>>>,
     expect |-> [ok |-> TRUE, narrative |-> <<"H", "e", "l", "l", "o", " ", "w", "o", "r", "l", "d">>, newLocation |-> <<"X">>,
                 previews |-> <<<<>>, <<>>, <<<<"H", "e", "l", "l", "o", " ", "w", "o", "r", "l", "d">>>>>>]]

\* The narrative whole in the first fragment.
StreamPlain ==
    [name |-> "StreamPlain",
     frags |->
      <<<<"{", QUOTE, "n", "a", "r", "r", "a", "t", "i", "v", "e", QUOTE,
          ":", QUOTE, "o", "k", QUOTE, ",">>,
      <<QUOTE, "n", "e", "w", "L", "o", "c", "a", "t", "i", "o", "n",
          QUOTE, ":", QUOTE, "X", QUOTE, "}">>>>,
     expect |-> [ok |-> TRUE, narrative |-> <<"o", "k">>, newLocation |-> <<"X">>,
                 previews |-> <<<<<<"o", "k">>>>, <<<<"o", "k">>>>>>]]

\* The key narrative twice: the pattern takes the first, JSON.parse the last.
StreamDup ==
    [name |-> "StreamDup",
     frags |->
      <<<<"{", QUOTE, "n", "a", "r", "r", "a", "t", "i", "v", "e", QUOTE,
          ":", QUOTE, "a", QUOTE, ",">>,
      <<QUOTE, "n", "a", "r", "r", "a", "t", "i", "v", "e", QUOTE, ":",
          QUOTE, "b", QUOTE, ",", QUOTE, "n", "e", "w", "L", "o",
          "c", "a", "t", "i", "o", "n", QUOTE, ":", QUOTE, "Y",
          QUOTE, "}">>>>,
     expect |-> [ok |-> TRUE, narrative |-> <<"b">>, newLocation |-> <<"Y">>,
                 previews |-> <<<<<<"a">>>>, <<<<"a">>>>>>]]

\* White space around the colon, and an escaped line feed in the narrative.
StreamEscape ==
    [name |-> "StreamEscape",
     frags |->
      <<<<"{", " ", QUOTE, "n", "a", "r", "r", "a", "t", "i", "v", "e",
          QUOTE, " ", ":", " ", QUOTE, "a", BSLASH, "n", "b",
          QUOTE>>,
      <<",", QUOTE, "n", "e", "w", "L", "o", "c", "a", "t", "i", "o",
          "n", QUOTE, ":", QUOTE, "X", QUOTE, "}">>>>,
     expect |-> [ok |-> TRUE, narrative |-> <<"a", NEWLINE, "b">>, newLocation |-> <<"X">>,
                 previews |-> <<<<<<"a", NEWLINE, "b">>>>, <<<<"a", NEWLINE, "b">>>>>>]]

\* An empty narrative: the captured group is the empty string.
StreamBlank ==
    [name |-> "StreamBlank",
     frags |->
      <<<<"{", QUOTE, "n", "a", "r", "r", "a", "t", "i", "v", "e", QUOTE,
          ":", QUOTE, QUOTE>>,
      <<",", QUOTE, "n", "e", "w", "L", "o", "c", "a", "t", "i", "o",
          "n", QUOTE, ":", QUOTE, "X", QUOTE, "}">>>>,
     expect |-> [ok |-> TRUE, narrative |-> <<>>, newLocation |-> <<"X">>,
                 previews |-> <<<<>>, <<>>>>]]

\* An escape that JSON does not have: the pattern matches, the decode throws.
StreamBadEscape ==
    [name |-> "StreamBadEscape",
     frags |->
      <<<<"{", QUOTE, "n", "a", "r", "r", "a", "t", "i", "v", "e", QUOTE,
          ":", QUOTE, "a", BSLASH, "x", QUOTE>>,
      <<",", QUOTE, "n", "e", "w", "L", "o", "c", "a", "t", "i", "o",
          "n", QUOTE, ":", QUOTE, "X", QUOTE, "}">>>>,
     expect |-> [ok |-> FALSE, narrative |-> <<>>, newLocation |-> <<>>,
                 previews |-> <<<<>>, <<>>>>]]

\* A document cut short after the narrative.
StreamTruncated ==
    [name |-> "StreamTruncated",
     frags |->
      <<<<"{", QUOTE, "n", "a", "r", "r", "a", "t", "i", "v", "e", QUOTE,
          ":", QUOTE, "a", "b", QUOTE>>,
      <<",", QUOTE, "n", "e", "w", "L", "o", "c">>>>,
     expect |-> [ok |-> FALSE, narrative |-> <<>>, newLocation |-> <<>>,
                 previews |-> <<<<<<"a", "b">>>>, <<<<"a", "b">>>>>>]]

\* A stream without fragments.
StreamEmpty ==
    [name |-> "StreamEmpty",
     frags |->
      <<>>,
     expect |-> [ok |-> FALSE, narrative |-> <<>>, newLocation |-> <<>>,
                 previews |-> <<>>]]

NarrativeName == <<"n", "a", "r", "r", "a", "t", "i", "v", "e">>
NewLocationName == <<"n", "e", "w", "L", "o", "c", "a", "t", "i", "o", "n">>

AllStreams ==
    {StreamHello, StreamPlain, StreamDup, StreamEscape, StreamBlank,
     StreamBadEscape, StreamTruncated, StreamEmpty}

(***************************************************************************)
(* Payloads: the members of a turn result other than narrative and         *)
(* newLocation, as the schema of the per-turn step lists them.             *)
(***************************************************************************)
Item(name, usable) == [name |-> name, usable |-> usable]

Potion == Item("potion", TRUE)
Sword == Item("sword", FALSE)

CharacterUpdate(health, mana, stamina, xpGained) ==
    <<[health |-> health, mana |-> mana, stamina |-> stamina, xpGained |-> xpGained]>>

LoreUpdate(type, name, description) ==
    <<[type |-> type, name |-> name, description |-> description]>>

QuestUpdate(questTitle, objectiveText, newStatus) ==
    <<[questTitle |-> questTitle, objectiveText |-> objectiveText,
       newStatus |-> newStatus]>>

BasePayload ==
    [dialogue |-> <<>>, updatedInventory |-> <<>>, newObjective |-> "find the key",
     newQuest |-> <<>>, questUpdate |-> <<>>, isGameOver |-> FALSE,
     gameOverMessage |-> "", characterUpdate |-> <<>>, loreUpdate |-> <<>>,
     requestImageGeneration |-> FALSE]

TwoLines ==
    <<[characterName |-> "Mira", text |-> <<"Halt">>],
      [characterName |-> "Orin", text |-> <<"Who goes there">>]>>

\* A turn with two dialogue lines that asks for a scene image.
DialoguePayload ==
    [BasePayload EXCEPT !.dialogue = TwoLines, !.requestImageGeneration = TRUE]

\* Payloads of the sessions that exercise inventory, character, lore and
\* the end of the game.
StatePayloads ==
    {[BasePayload EXCEPT !.updatedInventory = <<Potion, Sword>>],
     [BasePayload EXCEPT !.updatedInventory = <<Sword>>, !.newObjective = "open the gate"],
     [BasePayload EXCEPT !.characterUpdate = CharacterUpdate(<<70>>, <<>>, <<0 - 5>>, <<>>)],
     [BasePayload EXCEPT !.characterUpdate = CharacterUpdate(<<>>, <<20>>, <<>>, <<10>>)],
     [BasePayload EXCEPT !.characterUpdate = CharacterUpdate(<<>>, <<>>, <<>>, <<100>>)],
     [BasePayload EXCEPT !.characterUpdate = CharacterUpdate(<<>>, <<>>, <<>>, <<300>>),
                         !.loreUpdate = LoreUpdate("character", "Mira", "a guard")],
     [BasePayload EXCEPT !.characterUpdate = CharacterUpdate(<<>>, <<>>, <<>>, <<0>>)],
     [BasePayload EXCEPT !.characterUpdate = CharacterUpdate(<<>>, <<>>, <<>>, <<0 - 5>>)],
     [BasePayload EXCEPT !.loreUpdate = LoreUpdate("location", "Cave", "a damp cave")],
     [BasePayload EXCEPT !.loreUpdate = LoreUpdate("location", "Cave", "a dry cave")],
     [BasePayload EXCEPT !.loreUpdate = LoreUpdate("knowledge", "Rune", "it glows")],
     [BasePayload EXCEPT !.isGameOver = TRUE, !.gameOverMessage = "You died",
                         !.updatedInventory = <<Potion>>,
                         !.requestImageGeneration = TRUE]}

\* The quest the model opens: objective A with two sub-objectives, and B.
FreshTree ==
    <<Objective("A", FALSE, <<Objective("A1", FALSE, <<>>), Objective("A2", FALSE, <<>>)>>),
      Objective("B", FALSE, <<>>)>>

\* A tree the model sends with flags already set: A completed over
\* sub-objectives that are not, and B completed.
PresetTree ==
    <<Objective("A", TRUE, <<Objective("A1", FALSE, <<>>), Objective("A2", FALSE, <<>>)>>),
      Objective("B", TRUE, <<>>)>>

\* Payloads of the sessions that exercise the side quests.  The status of a
\* newQuest is whatever the model wrote; the schema only asks for active.
QuestPayloads ==
    {[BasePayload EXCEPT !.newQuest = <<Quest("Q", "active", FreshTree)>>],
     [BasePayload EXCEPT !.newQuest = <<Quest("Q", "completed", FreshTree)>>],
     [BasePayload EXCEPT !.newQuest = <<Quest("Q", "active", PresetTree)>>,
                         !.questUpdate = QuestUpdate("Q", "A1", "")],
     [BasePayload EXCEPT !.questUpdate = QuestUpdate("Q", "A1", "")],
     [BasePayload EXCEPT !.questUpdate = QuestUpdate("Q", "A2", "")],
     [BasePayload EXCEPT !.questUpdate = QuestUpdate("Q", "A", "")],
     [BasePayload EXCEPT !.questUpdate = QuestUpdate("Q", "B", "")],
     [BasePayload EXCEPT !.questUpdate = QuestUpdate("Q", "no such objective", "")],
     [BasePayload EXCEPT !.questUpdate = QuestUpdate("Q", "B", "completed")],
     [BasePayload EXCEPT !.questUpdate = QuestUpdate("Q", "A1", "failed")],
     [BasePayload EXCEPT !.questUpdate = QuestUpdate("no such quest", "A1", "")]}

\* What the service may answer in a session of the given profile.
Responses(p) ==
    CASE p = "stream" ->
             {[stream |-> st, payload |-> BasePayload] : st \in AllStreams}
                 \cup {[stream |-> st, payload |-> DialoguePayload] :
                          st \in {StreamHello, StreamPlain}}
      [] p = "state" ->
             {[stream |-> StreamPlain, payload |-> pl] : pl \in StatePayloads}
      [] p = "quest" ->
             {[stream |-> StreamPlain, payload |-> pl] : pl \in QuestPayloads}

\* JSON.parse(accumulatedJson) as the response object: [ok, response].
ParseResponse(accumulatedJson, payload) ==
    LET doc == ParseJSON(accumulatedJson)
    IN  [ok |-> doc.ok,
         response |->
             [narrative |-> Member(doc.members, NarrativeName),
              newLocation |-> Member(doc.members, NewLocationName),
              dialogue |-> payload.dialogue,
              updatedInventory |-> payload.updatedInventory,
              newObjective |-> payload.newObjective,
              newQuest |-> payload.newQuest,
              questUpdate |-> payload.questUpdate,
              isGameOver |-> payload.isGameOver,
              gameOverMessage |-> payload.gameOverMessage,
              characterUpdate |-> payload.characterUpdate,
              loreUpdate |-> payload.loreUpdate,
              requestImageGeneration |-> payload.requestImageGeneration]]

(***************************************************************************)
(* The final commit of a turn and the failure of a turn                    *)
(***************************************************************************)
\* One log entry per dialogue line.
DialogueEntries(dialogue) ==
    [i \in 1..Len(dialogue) |->
        Entry("narrator", dialogue[i].text, dialogue[i].characterName)]

\* Mutant of ReconcileLog: the commit leaves the narrator entry as the
\* stream loop left it.
ReconcileLogKeepingPreview(storyLog, narratorEntryIndex, response) ==
    Spread(storyLog) \o DialogueEntries(response.dialogue)

\* finalLog: the narrative written at the narrator position, then the
\* dialogue lines pushed.
ReconcileLog(storyLog, narratorEntryIndex, response) ==
    AssignAt(Spread(storyLog), narratorEntryIndex,
             Entry("narrator", response.narrative, ""))
        \o DialogueEntries(response.dialogue)

\* Mutant of ReconcileInventory: the new items are added to the old ones.
ReconcileInventoryMerged(inventory, response) ==
    inventory \o response.updatedInventory

\* inventory: response.updatedInventory
ReconcileInventory(inventory, response) == response.updatedInventory

\* The state returned by the updater of the final commit.
Reconcile(prev, narratorEntryIndex, response) ==
    [prev EXCEPT
        !.storyLog = ReconcileLog(prev.storyLog, narratorEntryIndex, response),
        !.currentLocation = response.newLocation,
        !.inventory = ReconcileInventory(prev.inventory, response),
        !.objective = response.newObjective,
        !.quests = ReconcileQuests(prev.quests, response),
        !.isGameOver = response.isGameOver,
        !.gameOverMessage = response.gameOverMessage,
        !.scenario.character = ReconcileCharacter(prev.scenario.character, response)]

\* The updater of the stream loop: the decoded narrative shown at the
\* narrator position, when there is an entry at that position.
ShowPreview(storyLog, narratorEntryIndex, narrativeText) ==
    IF HasEntry(Spread(storyLog), narratorEntryIndex)
    THEN [Spread(storyLog) EXCEPT ![narratorEntryIndex].text = narrativeText]
    ELSE Spread(storyLog)

\* Mutant of PreviewLog: a captured span that does not decode is shown as
\* it was captured.
PreviewLogRaw(storyLog, narratorEntryIndex, accumulatedJson) ==
    LET narrativeMatch == NarrativeMatch(accumulatedJson)
    IN  IF narrativeMatch.matched /\ narrativeMatch.group # <<>>
        THEN LET narrativeText == ParseQuoted(narrativeMatch.group)
             IN  IF narrativeText.ok
                 THEN ShowPreview(storyLog, narratorEntryIndex, narrativeText.val)
                 ELSE ShowPreview(storyLog, narratorEntryIndex, narrativeMatch.group)
        ELSE storyLog

\* The story log after one more fragment has been added to the buffer.
PreviewLog(storyLog, narratorEntryIndex, accumulatedJson) ==
    LET narrativeMatch == NarrativeMatch(accumulatedJson)
    IN  IF narrativeMatch.matched /\ narrativeMatch.group # <<>>
        THEN LET narrativeText == ParseQuoted(narrativeMatch.group)
             IN  IF narrativeText.ok
                 THEN ShowPreview(storyLog, narratorEntryIndex, narrativeText.val)
                 ELSE storyLog
        ELSE storyLog

\* The list without the element at position i.
RemoveEntry(log, i) == SubSeq(log, 1, i - 1) \o SubSeq(log, i + 1, Len(log))

\* Mutant of ErrorLog: the narrator entry of the failed turn is taken out
\* of the log.
ErrorLogDropping(storyLog, narratorEntryIndex, errorText) ==
    IF HasEntry(Spread(storyLog), narratorEntryIndex)
    THEN RemoveEntry(Spread(storyLog), narratorEntryIndex)
    ELSE Spread(storyLog)

\* The updater of the catch block.
ErrorLog(storyLog, narratorEntryIndex, errorText) ==
    IF HasEntry(Spread(storyLog), narratorEntryIndex)
    THEN [Spread(storyLog) EXCEPT ![narratorEntryIndex] = Entry("narrator", errorText, "")]
    ELSE Spread(storyLog)

\* Messages of the errors a turn can end with.
FrozenMessage == <<"The world seems to be frozen in time. Please try your action again.">>
SyntaxErrorMessage == <<"Unexpected end of JSON input">>
StreamErrorMessage == <<"stream error">>
UnknownErrorMessage == <<"An unknown error occurred.">>

\* What the iteration of the stream may throw: an Error of the service, or
\* a value that is no Error.
IterationErrors == {StreamErrorMessage, UnknownErrorMessage}

(***************************************************************************)
(* Lore updates and level-up                                               *)
(***************************************************************************)
HasName(list, name) == \E i \in 1..Len(list) : list[i].name = name

HasString(list, str) == \E i \in 1..Len(list) : list[i] = str

\* Mutant of AcceptedLore: the entry is appended whatever is recorded.
AcceptedLoreAppending(lore, u) ==
    CASE u.type = "location" ->
             [lore EXCEPT !.locations =
                 Append(@, [name |-> u.name, description |-> u.description])]
      [] u.type = "character" ->
             [lore EXCEPT !.characters =
                 Append(@, [name |-> u.name, description |-> u.description])]
      [] u.type = "knowledge" ->
             [lore EXCEPT !.knowledge = Append(@, u.name \o ": " \o u.description)]
      [] OTHER -> lore

\* newLore of handleAcceptUpdate.
AcceptedLore(lore, u) ==
    CASE u.type = "location" ->
             IF ~HasName(lore.locations, u.name)
             THEN [lore EXCEPT !.locations =
                      Append(@, [name |-> u.name, description |-> u.description])]
             ELSE lore
      [] u.type = "character" ->
             IF ~HasName(lore.characters, u.name)
             THEN [lore EXCEPT !.characters =
                      Append(@, [name |-> u.name, description |-> u.description])]
             ELSE lore
      [] u.type = "knowledge" ->
             LET newKnowledge == u.name \o ": " \o u.description
             IN  IF ~HasString(lore.knowledge, newKnowledge)
                 THEN [lore EXCEPT !.knowledge = Append(@, newKnowledge)]
                 ELSE lore
      [] OTHER -> lore

\* Mutant of NextThreshold: the product is rounded up.
NextThresholdRoundedUp(xpToNextLevel) == (3 * xpToNextLevel + 1) \div 2

\* Math.floor(xpToNextLevel * 1.5), for a threshold that is not negative.
NextThreshold(xpToNextLevel) == (3 * xpToNextLevel) \div 2

\* updatedCharacter of handleLevelUpConfirm.
LeveledUp(char, statIncreases) ==
    LET newMaxHealth == char.maxHealth + statIncreases.maxHealth
        newMaxMana == char.maxMana + statIncreases.maxMana
        newMaxStamina == char.maxStamina + statIncreases.maxStamina
    IN  [char EXCEPT
            !.level = char.level + 1,
            !.xp = char.xp - char.xpToNextLevel,
            !.xpToNextLevel = NextThreshold(char.xpToNextLevel),
            !.maxHealth = newMaxHealth,
            !.maxMana = newMaxMana,
            !.maxStamina = newMaxStamina,
            !.health = newMaxHealth,
            !.mana = newMaxMana,
            !.stamina = newMaxStamina]

StatIncreases(h, m, s) == [maxHealth |-> h, maxMana |-> m, maxStamina |-> s]

\* Allocations of the ten points that the level-up dialog can confirm.
ConfirmableIncreases ==
    {StatIncreases(50, 0, 0), StatIncreases(0, 50, 0), StatIncreases(20, 15, 15)}

(***************************************************************************)
(* State                                                                   *)
(***************************************************************************)
VARIABLES
    gameState,       \* the GameState held by GameScreen
    isLoading,       \* a turn is being generated
    proposedUpdate,  \* the staged lore update: << >> or <<update>>
    isLevelingUp,    \* a level-up is pending
    calls,           \* the invocations of executeAction that have not returned
    images,          \* the image requests in flight
    mounted,         \* the mount effect has run
    crashed,         \* rendering threw and the screen is gone
    turnsStarted,    \* number of turns started so far
    profile,         \* what the service answers in this session
    levelUpModal,    \* the local state of LevelUpModal
    loreGenerator,   \* the local state of LoreGenerator
    overridden,      \* positions of the quests whose last change gave a newStatus
    last             \* the step taken last, and what it worked on

\* The value of the local state of a component that a specification does
\* not follow.
NotFollowed == [followed |-> FALSE]

vars ==
    <<gameState, isLoading, proposedUpdate, isLevelingUp, calls, images,
      mounted, crashed, turnsStarted, profile, levelUpModal, loreGenerator, overridden, last>>

Step(kind, call, response, error) ==
    [kind |-> kind, call |-> call, response |-> response, error |-> error]

Did(kind) == Step(kind, <<>>, <<>>, <<>>)

\* The scenario and lore that GameScreen is given.
StartCharacter(xp) ==
    [name |-> "Ayla", health |-> 100, maxHealth |-> 100, mana |-> 50,
     maxMana |-> 50, stamina |-> 80, maxStamina |-> 80, level |-> 1,
     xp |-> xp, xpToNextLevel |-> 100]

StartScenario(xp, description) ==
    [character |-> StartCharacter(xp),
     setting |-> [name |-> <<"Start">>, description |-> description],
     goal |-> "leave the valley", objective |-> "wake up"]

StartLore ==
    [worldName |-> "Eld",
     locations |-> <<[name |-> "Keep", description |-> "an old keep"]>>,
     characters |-> <<>>, knowledge |-> <<>>]

\* The sessions explored: the profile of the service and the scenario.
Sessions ==
    {[profile |-> "stream", scenario |-> StartScenario(0, <<"A cold morning.">>)],
     [profile |-> "state", scenario |-> StartScenario(0, <<>>)],
     [profile |-> "state", scenario |-> StartScenario(95, <<>>)],
     [profile |-> "quest", scenario |-> StartScenario(0, <<>>)]}

\* useState of GameScreen.
InitialGameState(lore, scenario) ==
    [lore |-> lore,
     scenario |-> scenario,
     currentLocation |-> scenario.setting.name,
     inventory |-> <<>>,
     storyLog |-> <<Entry("narrator", scenario.setting.description, "")>>,
     objective |-> scenario.objective,
     quests |-> <<>>,
     isGameOver |-> FALSE,
     gameOverMessage |-> ""]

Init ==
    \E session \in Sessions :
        /\ gameState = InitialGameState(StartLore, session.scenario)
        /\ profile = session.profile
        /\ levelUpModal = NotFollowed
        /\ loreGenerator = NotFollowed
        /\ isLoading = FALSE
        /\ proposedUpdate = <<>>
        /\ isLevelingUp = FALSE
        /\ calls = <<>>
        /\ images = {}
        /\ mounted = FALSE
        /\ crashed = FALSE
        /\ turnsStarted = 0
        /\ overridden = {}
        /\ last = Did("init")

\* Every handler runs on a mounted screen that has not crashed.
Alive == mounted /\ ~crashed

\* The log as the next state holds it; rendering it may throw.
SetLog(newLog) ==
    /\ gameState' = [gameState EXCEPT !.storyLog = newLog]
    /\ crashed' = RenderThrows(newLog)

RemoveAt(seq, i) == SubSeq(seq, 1, i - 1) \o SubSeq(seq, i + 1, Len(seq))

(***************************************************************************)
(* Image side tasks                                                        *)
(***************************************************************************)
\* The image that request r returns.
ImageUrl(r) == <<r>>

\* The effect that runs once after the first render.
generateInitialImage ==
    /\ ~mounted
    /\ mounted' = TRUE
    /\ IF gameState.scenario.setting.description = <<>>
       THEN UNCHANGED <<gameState, images, crashed>>
       ELSE /\ SetLog(Spread(gameState.storyLog) \o <<placeholderEntry(0)>>)
            /\ images' = images \cup {0}
    /\ last' = Did("mount")
    /\ UNCHANGED <<isLoading, proposedUpdate, isLevelingUp, calls, turnsStarted, profile, levelUpModal, loreGenerator, overridden>>

\* generateImage resolved: the then-branch of either request.
ImageDone(r) ==
    /\ Alive
    /\ r \in images
    /\ images' = images \ {r}
    /\ SetLog(WithImage(gameState.storyLog, ImageUrl(r)))
    /\ last' = Did("imageDone")
    /\ UNCHANGED <<isLoading, proposedUpdate, isLevelingUp, calls, mounted,
                   turnsStarted, profile, levelUpModal, loreGenerator, overridden>>

\* generateImage rejected: the catch-branch of either request.
ImageFailed(r) ==
    /\ Alive
    /\ r \in images
    /\ images' = images \ {r}
    /\ SetLog(WithoutLoading(gameState.storyLog))
    /\ last' = Did("imageFailed")
    /\ UNCHANGED <<isLoading, proposedUpdate, isLevelingUp, calls, mounted,
                   turnsStarted, profile, levelUpModal, loreGenerator, overridden>>

(***************************************************************************)
(* executeAction                                                           *)
(***************************************************************************)
\* action.trim() is empty.
IsBlank(action) == \A i \in 1..Len(action) : action[i] \in {"", " "}

\* What the player may type.
PlayerInputs == {<<"look around">>, <<" ">>}

\* Mutant of GateOpen: the guard does not look at isLoading.
GateOpenWhileLoading ==
    ~(gameState.isGameOver \/ proposedUpdate # <<>> \/ isLevelingUp)

\* Mutant of GateOpen: the guard does not look at isGameOver.
GateOpenAfterGameOver ==
    ~(isLoading \/ proposedUpdate # <<>> \/ isLevelingUp)

\* The conditions under which executeAction and handleUseItem go on.
GateOpen ==
    ~(isLoading \/ gameState.isGameOver \/ proposedUpdate # <<>> \/ isLevelingUp)

\* executeAction returns at once.
Rejected ==
    /\ last' = Did("rejected")
    /\ UNCHANGED <<gameState, isLoading, proposedUpdate, isLevelingUp, calls,
                   images, mounted, crashed, turnsStarted, profile, levelUpModal, loreGenerator, overridden>>

\* executeAction up to its first await: the player entry and an empty
\* narrator entry are appended and the request is issued.  The position of
\* the narrator entry is computed from the log the handler closed over.
executeAction(action) ==
    IF IsBlank(action) \/ ~GateOpen THEN Rejected
    ELSE /\ turnsStarted < MaxTurns
         /\ LET newPlayerEntry == Entry("player", action, "")
                call == [id |-> turnsStarted + 1,
                         action |-> action,
                         narratorEntryIndex |-> Len(gameState.storyLog) + 2,
                         gameState |-> gameState,
                         accumulatedJson |-> <<>>,
                         pc |-> "opening",
                         rest |-> <<>>,
                         expect |-> StreamEmpty.expect,
                         payload |-> BasePayload]
            IN  /\ SetLog(Spread(gameState.storyLog)
                             \o <<newPlayerEntry, Entry("narrator", <<>>, "")>>)
                /\ calls' = Append(calls, call)
                /\ last' = Step("submit", <<call>>, <<>>, <<>>)
         /\ isLoading' = TRUE
         /\ turnsStarted' = turnsStarted + 1
         /\ UNCHANGED <<proposedUpdate, isLevelingUp, images, mounted, profile, levelUpModal, loreGenerator, overridden>>

handleSubmit ==
    /\ Alive
    /\ \E playerInput \in PlayerInputs : executeAction(playerInput)

UseText(item) == <<"use ", QUOTE, item.name, QUOTE>>

handleUseItem ==
    /\ Alive
    /\ \E i \in 1..Len(gameState.inventory) :
           LET item == gameState.inventory[i]
           IN  IF ~item.usable \/ ~GateOpen THEN Rejected
               ELSE executeAction(UseText(item))

\* getNextStepStream resolved: the service has chosen what it will send.
StreamOpens ==
    /\ Alive
    /\ \E i \in 1..Len(calls) :
           /\ calls[i].pc = "opening"
           /\ \E r \in Responses(profile) :
                  calls' = [calls EXCEPT ![i].pc = "streaming",
                                         ![i].rest = r.stream.frags,
                                         ![i].expect = r.stream.expect,
                                         ![i].payload = r.payload]
           /\ last' = Step("open", <<calls'[i]>>, <<>>, <<>>)
    /\ UNCHANGED <<gameState, isLoading, proposedUpdate, isLevelingUp, images,
                   mounted, crashed, turnsStarted, profile, levelUpModal, loreGenerator, overridden>>

\* One iteration of the stream loop.
StreamChunk ==
    /\ Alive
    /\ \E i \in 1..Len(calls) :
           /\ calls[i].pc = "streaming"
           /\ calls[i].rest # <<>>
           /\ LET accumulatedJson == calls[i].accumulatedJson \o Head(calls[i].rest)
              IN  /\ calls' = [calls EXCEPT ![i].accumulatedJson = accumulatedJson,
                                            ![i].rest = Tail(@)]
                  /\ SetLog(PreviewLog(gameState.storyLog, calls[i].narratorEntryIndex,
                                       accumulatedJson))
           /\ last' = Step("chunk", <<calls'[i]>>, <<>>, <<>>)
    /\ UNCHANGED <<isLoading, proposedUpdate, isLevelingUp, images, mounted,
                   turnsStarted, profile, levelUpModal, loreGenerator, overridden>>

\* The catch block and the finally block, for call i ending with errorText.
FailTurn(i, errorText) ==
    /\ SetLog(ErrorLog(gameState.storyLog, calls[i].narratorEntryIndex, errorText))
    /\ isLoading' = FALSE
    /\ calls' = RemoveAt(calls, i)
    /\ last' = Step("failed", <<calls[i]>>, <<>>, errorText)
    /\ UNCHANGED <<proposedUpdate, isLevelingUp, images, mounted, turnsStarted, profile, levelUpModal, loreGenerator, overridden>>

\* getNextStepStream threw.
OpenFails ==
    /\ Alive
    /\ \E i \in 1..Len(calls) :
           /\ calls[i].pc = "opening"
           /\ FailTurn(i, FrozenMessage)

\* The iteration of the stream threw.
StreamFails ==
    /\ Alive
    /\ \E i \in 1..Len(calls) :
           /\ calls[i].pc = "streaming"
           /\ \E errorText \in IterationErrors : FailTurn(i, errorText)

\* The positions of the quests whose last change came from a questUpdate
\* that gave a newStatus (kept beside the state; the program has no such
\* record).
OverriddenAfter(before, quests, response) ==
    LET withNew == AppendNewQuest(quests, response.newQuest)
    IN  IF response.questUpdate = <<>> THEN before
        ELSE {i \in 1..Len(withNew) :
                 IF UpdateQuest(withNew[i], response.questUpdate[1]) # withNew[i]
                 THEN response.questUpdate[1].newStatus # ""
                 ELSE i \in before}

\* From JSON.parse to the end of the try block, then the finally block:
\* the final commit, the staging of a lore update and the request of a
\* scene image, all in the continuation that follows the end of the stream.
CommitTurn(i, response) ==
    LET call == calls[i]
        committed == Reconcile(gameState, call.narratorEntryIndex, response)
        wantsImage == response.requestImageGeneration /\ ~response.isGameOver
        finalLog == IF wantsImage
                    THEN Spread(committed.storyLog) \o <<placeholderEntry(call.id)>>
                    ELSE committed.storyLog
    IN  /\ gameState' = [committed EXCEPT !.storyLog = finalLog]
        /\ crashed' = RenderThrows(finalLog)
        /\ images' = IF wantsImage THEN images \cup {call.id} ELSE images
        /\ isLevelingUp' =
               (isLevelingUp \/ TriggersLevelUp(gameState.scenario.character,
                                                response.characterUpdate))
        /\ proposedUpdate' =
               IF response.loreUpdate # <<>> THEN response.loreUpdate ELSE proposedUpdate
        /\ isLoading' = FALSE
        /\ calls' = RemoveAt(calls, i)
        /\ overridden' = OverriddenAfter(overridden, gameState.quests, response)
        /\ last' = Step("committed", <<call>>, <<response>>, <<>>)
        /\ UNCHANGED <<mounted, turnsStarted, profile, levelUpModal, loreGenerator>>

\* The stream is exhausted: the buffer is parsed, and the turn is committed
\* or fails.
StreamEnds ==
    /\ Alive
    /\ \E i \in 1..Len(calls) :
           /\ calls[i].pc = "streaming"
           /\ calls[i].rest = <<>>
           /\ LET parsed == ParseResponse(calls[i].accumulatedJson, calls[i].payload)
              IN  IF parsed.ok THEN CommitTurn(i, parsed.response)
                  ELSE FailTurn(i, SyntaxErrorMessage)

(***************************************************************************)
(* The other handlers of GameScreen                                        *)
(***************************************************************************)
\* Mutant of handleAcceptUpdate: accepting a discovery also moves the
\* player to it.
handleAcceptUpdateMoving ==
    /\ Alive
    /\ proposedUpdate # <<>>
    /\ ~isLoading
    /\ gameState' = [gameState EXCEPT !.lore = AcceptedLore(@, proposedUpdate[1]),
                                      !.currentLocation = <<proposedUpdate[1].name>>]
    /\ proposedUpdate' = <<>>
    /\ last' = Did("accept")
    /\ UNCHANGED <<isLoading, isLevelingUp, calls, images, mounted, crashed,
                   turnsStarted, profile, levelUpModal, loreGenerator, overridden>>

\* The buttons of the discovery panel are shown while an update is staged
\* and no turn is loading.
handleAcceptUpdate ==
    /\ Alive
    /\ proposedUpdate # <<>>
    /\ ~isLoading
    /\ gameState' = [gameState EXCEPT !.lore = AcceptedLore(@, proposedUpdate[1])]
    /\ proposedUpdate' = <<>>
    /\ last' = Did("accept")
    /\ UNCHANGED <<isLoading, isLevelingUp, calls, images, mounted, crashed,
                   turnsStarted, profile, levelUpModal, loreGenerator, overridden>>

\* Mutant of handleRejectUpdate: the rejected update is merged all the same.
handleRejectUpdateMerging ==
    /\ Alive
    /\ proposedUpdate # <<>>
    /\ ~isLoading
    /\ gameState' = [gameState EXCEPT !.lore = AcceptedLore(@, proposedUpdate[1])]
    /\ proposedUpdate' = <<>>
    /\ last' = Did("reject")
    /\ UNCHANGED <<isLoading, isLevelingUp, calls, images, mounted, crashed,
                   turnsStarted, profile, levelUpModal, loreGenerator, overridden>>

handleRejectUpdate ==
    /\ Alive
    /\ proposedUpdate # <<>>
    /\ ~isLoading
    /\ proposedUpdate' = <<>>
    /\ last' = Did("reject")
    /\ UNCHANGED <<gameState, isLoading, isLevelingUp, calls, images, mounted,
                   crashed, turnsStarted, profile, levelUpModal, loreGenerator, overridden>>

\* The level-up dialog is shown while a level-up is pending.
handleLevelUpConfirm ==
    /\ Alive
    /\ isLevelingUp
    /\ \E statIncreases \in ConfirmableIncreases :
           gameState' = [gameState EXCEPT !.scenario.character =
                            LeveledUp(@, statIncreases)]
    /\ isLevelingUp' = FALSE
    /\ last' = Did("levelUp")
    /\ UNCHANGED <<isLoading, proposedUpdate, calls, images, mounted, crashed,
                   turnsStarted, profile, levelUpModal, loreGenerator, overridden>>

Next ==
    \/ generateInitialImage
    \/ \E r \in images : ImageDone(r)
    \/ \E r \in images : ImageFailed(r)
    \/ handleSubmit
    \/ handleUseItem
    \/ StreamOpens
    \/ StreamChunk
    \/ OpenFails
    \/ StreamFails
    \/ StreamEnds
    \/ handleAcceptUpdate
    \/ handleRejectUpdate
    \/ handleLevelUpConfirm

Spec == Init /\ [][Next]_vars

(***************************************************************************)
(* Vocabulary of the properties                                            *)
(***************************************************************************)
\* The invocation of executeAction that the last step worked on, and the
\* game state it closed over when the action was submitted.
LastCall == last.call[1]
StateAtSubmit == LastCall.gameState
LastResponse == last.response[1]

TurnCommitted == last.kind = "committed"
TurnFailed == last.kind = "failed"

\* The entries of a log that are no image placeholders, pending or filled.
RECURSIVE Plain(_)
Plain(log) ==
    IF log = <<>> THEN <<>>
    ELSE IF Head(log).req = NoReq THEN <<Head(log)>> \o Plain(Tail(log))
    ELSE Plain(Tail(log))

\* The last n entries of a log.
LastEntries(log, n) == SubSeq(log, Len(log) - n + 1, Len(log))

ErrorMessages ==
    {FrozenMessage, SyntaxErrorMessage, StreamErrorMessage, UnknownErrorMessage}

\* Number of entries of a log that show an error message.
RECURSIVE ErrorLines(_)
ErrorLines(log) ==
    IF log = <<>> THEN 0
    ELSE (IF Head(log).text \in ErrorMessages THEN 1 ELSE 0) + ErrorLines(Tail(log))

\* The gates of the submit, written out.
SomeGateClosed ==
    isLoading \/ isLevelingUp \/ proposedUpdate # <<>> \/ gameState.isGameOver

(***************************************************************************)
(* C1                                                                      *)
(***************************************************************************)
\* C1: at most one turn is in flight; a turn starts only when no turn is
\* loading, no level-up and no lore decision is pending and the game is not
\* over; a submit made while one of these holds changes nothing.
C1_OneTurnInFlight ==
    /\ [](Len(calls) <= 1)
    /\ [][last'.kind \in {"submit", "rejected"} /\ SomeGateClosed
            => UNCHANGED <<gameState, isLoading, proposedUpdate, isLevelingUp,
                           calls, images, turnsStarted>>]_vars
    /\ [][turnsStarted' # turnsStarted => ~SomeGateClosed /\ calls = <<>>]_vars

\* A submit has just been rejected while a turn was streaming.
C1_Witness ==
    /\ last.kind = "rejected"
    /\ isLoading
    /\ Len(calls) = 1
    /\ calls[1].pc = "streaming"

(***************************************************************************)
(* C2                                                                      *)
(***************************************************************************)
\* C2: a turn whose stream fails or whose buffer does not parse fails once
\* and commits nothing: inventory, location, objective, quests, character,
\* isGameOver, the staged lore update and the level-up flag are as they
\* were when the action was submitted; and a document that is not valid is
\* never committed.
C2_FailureCommitsNothing ==
    /\ TurnFailed =>
           /\ gameState.inventory = StateAtSubmit.inventory
           /\ gameState.currentLocation = StateAtSubmit.currentLocation
           /\ gameState.objective = StateAtSubmit.objective
           /\ gameState.quests = StateAtSubmit.quests
           /\ gameState.scenario = StateAtSubmit.scenario
           /\ gameState.lore = StateAtSubmit.lore
           /\ gameState.isGameOver = StateAtSubmit.isGameOver
           /\ gameState.gameOverMessage = StateAtSubmit.gameOverMessage
           /\ proposedUpdate = <<>>
           /\ ~isLevelingUp
           /\ ErrorLines(gameState.storyLog) <= ErrorLines(StateAtSubmit.storyLog) + 1
           /\ calls = <<>>
    /\ TurnCommitted => LastCall.expect.ok
    /\ (TurnFailed /\ LastCall.pc = "streaming" /\ LastCall.rest = <<>>
           /\ last.error = SyntaxErrorMessage) => ~LastCall.expect.ok

\* A truncated document has just failed a turn that followed a committed
\* turn, so that the state kept is not the initial one.
C2_Witness ==
    /\ TurnFailed
    /\ last.error = SyntaxErrorMessage
    /\ LastCall.accumulatedJson # <<>>
    /\ gameState.currentLocation = <<"Y">>
    /\ gameState.objective = "find the key"

(***************************************************************************)
(* C3                                                                      *)
(***************************************************************************)
\* C3: after a failed turn the story log is the log of the submit (its
\* image placeholders filled or removed meanwhile) followed by the entry of
\* the action and one narrator entry with the error message, and isLoading
\* is false.
C3_FailedTurnLog ==
    TurnFailed =>
        /\ ~isLoading
        /\ Len(gameState.storyLog) >= 2
        /\ LastEntries(gameState.storyLog, 2) =
               <<Entry("player", LastCall.action, ""), Entry("narrator", last.error, "")>>
        /\ Plain(gameState.storyLog) =
               Plain(StateAtSubmit.storyLog)
                   \o <<Entry("player", LastCall.action, ""),
                        Entry("narrator", last.error, "")>>

(***************************************************************************)
(* C4                                                                      *)
(***************************************************************************)
\* C4: after a successful turn the narrator entry that the turn wrote holds
\* the narrative of the whole document, whatever the stream loop showed.
C4_FinalNarrative ==
    TurnCommitted =>
        /\ HasEntry(gameState.storyLog, LastCall.narratorEntryIndex)
        /\ gameState.storyLog[LastCall.narratorEntryIndex] =
               Entry("narrator", LastCall.expect.narrative, "")

\* A turn was committed whose preview (the first narrative of the buffer)
\* was not the narrative of the document (the last one).
C4_Witness ==
    /\ TurnCommitted
    /\ LastCall.expect = StreamDup.expect
    /\ gameState.storyLog[LastCall.narratorEntryIndex].text = <<"b">>

(***************************************************************************)
(* C5                                                                      *)
(***************************************************************************)
HelloFirst == StreamHello.frags[1]
HelloSecond == StreamHello.frags[1] \o StreamHello.frags[2]
HelloWhole == Flatten(StreamHello.frags)
HelloWorld == <<"H", "e", "l", "l", "o", " ", "w", "o", "r", "l", "d">>

\* C5 as stated: the three fragments give the preview Hel after the first,
\* no change after the second and the narrative Hello world at the end.
C5_AsStated ==
    /\ (last.kind = "chunk" /\ LastCall.accumulatedJson \in {HelloFirst, HelloSecond}
           /\ HasEntry(gameState.storyLog, LastCall.narratorEntryIndex))
         => gameState.storyLog[LastCall.narratorEntryIndex].text = <<"H", "e", "l">>
    /\ (TurnCommitted /\ LastCall.accumulatedJson = HelloWhole)
         => gameState.storyLog[LastCall.narratorEntryIndex].text = HelloWorld

\* C5 amended: the first and the second fragment change nothing in the
\* story log, the third shows the preview Hello world at the narrator
\* position (when there is an entry there), the committed narrative is
\* Hello world, and the turn is still running after each fragment.
C5_HelloWorld ==
    /\ [][(last'.kind = "chunk"
             /\ last'.call[1].accumulatedJson \in {HelloFirst, HelloSecond})
            => /\ gameState'.storyLog = gameState.storyLog
               /\ isLoading' /\ calls' # <<>>]_vars
    /\ [][(last'.kind = "chunk" /\ last'.call[1].accumulatedJson = HelloWhole)
            => /\ isLoading' /\ calls' # <<>>
               /\ gameState'.storyLog =
                      IF HasEntry(gameState.storyLog, last'.call[1].narratorEntryIndex)
                      THEN [gameState.storyLog EXCEPT
                               ![last'.call[1].narratorEntryIndex].text = HelloWorld]
                      ELSE gameState.storyLog]_vars
    /\ []((TurnCommitted /\ LastCall.accumulatedJson = HelloWhole)
            => /\ gameState.storyLog[LastCall.narratorEntryIndex].text = HelloWorld
               /\ gameState.currentLocation = <<"X">>)

\* The third fragment has arrived and the preview Hello world is shown.
C5_Witness ==
    /\ last.kind = "chunk"
    /\ LastCall.accumulatedJson = HelloWhole
    /\ HasEntry(gameState.storyLog, LastCall.narratorEntryIndex)
    /\ gameState.storyLog[LastCall.narratorEntryIndex].text = HelloWorld

(***************************************************************************)
(* C6                                                                      *)
(***************************************************************************)
\* C6: a fragment never fails the turn and never puts an error message in
\* the log: after it the turn is still running and the log is the log of
\* before, but for the narrator entry showing the decoded narrative when
\* the buffer holds one that decodes.
C6_FragmentsNeverFail ==
    [][last'.kind = "chunk"
         => LET c == last'.call[1]
                shown == c.expect.previews[Len(c.expect.previews) - Len(c.rest)]
            IN  /\ isLoading' /\ calls' # <<>> /\ ~crashed'
                /\ ErrorLines(gameState'.storyLog) = ErrorLines(gameState.storyLog)
                /\ gameState'.storyLog =
                       IF shown # <<>> /\ HasEntry(gameState.storyLog, c.narratorEntryIndex)
                       THEN [gameState.storyLog EXCEPT
                                ![c.narratorEntryIndex].text = shown[1]]
                       ELSE gameState.storyLog]_vars

\* The buffer holds a narrative that the pattern captures and that does not
\* decode, and the narrator entry is still empty.
C6_Witness ==
    /\ last.kind = "chunk"
    /\ LastCall.accumulatedJson = StreamBadEscape.frags[1]
    /\ NarrativeMatch(LastCall.accumulatedJson).matched
    /\ HasEntry(gameState.storyLog, LastCall.narratorEntryIndex)
    /\ gameState.storyLog[LastCall.narratorEntryIndex].text = <<>>
    /\ isLoading

(***************************************************************************)
(* C7                                                                      *)
(***************************************************************************)
\* The entries a successful turn is to add: the action, the narrative, and
\* the dialogue lines in the order of the response.
TurnEntries ==
    <<Entry("player", LastCall.action, ""),
      Entry("narrator", LastCall.expect.narrative, "")>>
        \o [i \in 1..Len(LastCall.payload.dialogue) |->
               Entry("narrator", LastCall.payload.dialogue[i].text,
                     LastCall.payload.dialogue[i].characterName)]

\* The log without the placeholder of the scene image that the last turn
\* requested, which the turn appends after its entries.
WithoutOwnPlaceholder(log) ==
    IF log # <<>> /\ log[Len(log)].req = LastCall.id
    THEN SubSeq(log, 1, Len(log) - 1)
    ELSE log

\* C7: a successful turn extends the log of the submit by the action, the
\* narrative and the dialogue lines, in this order and with nothing between
\* them, whatever happened to image placeholders during the turn.
C7_LogExtension ==
    TurnCommitted =>
        /\ Len(WithoutOwnPlaceholder(gameState.storyLog)) >= Len(TurnEntries)
        /\ LastEntries(WithoutOwnPlaceholder(gameState.storyLog), Len(TurnEntries))
               = TurnEntries
        /\ Plain(gameState.storyLog) = Plain(StateAtSubmit.storyLog) \o TurnEntries

(***************************************************************************)
(* C8                                                                      *)
(***************************************************************************)
\* C8: after a successful turn the inventory is the updatedInventory of the
\* response, item for item.
C8_InventoryReplaced ==
    TurnCommitted => gameState.inventory = LastCall.payload.updatedInventory

\* A turn was committed that dropped the potion held at the submit.
C8_Witness ==
    /\ TurnCommitted
    /\ StateAtSubmit.inventory = <<Potion, Sword>>
    /\ gameState.inventory = <<Sword>>

(***************************************************************************)
(* C9                                                                      *)
(***************************************************************************)
\* C9: a newQuest of the response is appended at the end of the quest list
\* with status active, whatever status the model gave it.
C9_NewQuestActive ==
    (TurnCommitted /\ LastCall.payload.newQuest # <<>>) =>
        /\ Len(gameState.quests) = Len(StateAtSubmit.quests) + 1
        /\ gameState.quests[Len(gameState.quests)].title =
               LastCall.payload.newQuest[1].title
        /\ gameState.quests[Len(gameState.quests)].status = "active"

(***************************************************************************)
(* C10                                                                     *)
(***************************************************************************)
\* C10: a quest whose status is completed has every objective completed, at
\* every depth, unless the questUpdate that last changed it gave a status.
C10_CompletedMeansAllDone ==
    \A i \in 1..Len(gameState.quests) :
        gameState.quests[i].status = "completed" =>
            \/ areAllObjectivesComplete(gameState.quests[i].objectives)
            \/ i \in overridden

(***************************************************************************)
(* The quest reconciliation by itself: a game whose quest list holds one   *)
(* quest as a newQuest may have delivered it (the flags and the status are *)
(* whatever the model wrote), to which questUpdates are applied as the     *)
(* final commit applies them.                                              *)
(***************************************************************************)
\* A tree of the shape A (with two sub-objectives) and B; the second
\* sub-objective is named A2, or B like the root objective.
SentTree(second, fA, f1, f2, fB) ==
    <<Objective("A", fA, <<Objective("A1", f1, <<>>), Objective(second, f2, <<>>)>>),
      Objective("B", fB, <<>>)>>

\* A tree of three levels: the schema of an objective nests without limit.
DeepTree(fA, f1, fa, fb, f2) ==
    <<Objective("A", fA,
          <<Objective("A1", f1, <<Objective("A1a", fa, <<>>), Objective("A1b", fb, <<>>)>>),
            Objective("A2", f2, <<>>)>>),
      Objective("B", FALSE, <<>>)>>

SentQuests ==
    {Quest("Q", status, SentTree(second, fA, f1, f2, fB)) :
        status \in {"active", "completed", "failed"}, second \in {"A2", "B"},
        fA \in BOOLEAN, f1 \in BOOLEAN, f2 \in BOOLEAN, fB \in BOOLEAN}
      \cup {Quest("Q", "active", DeepTree(fA, f1, fa, fb, f2)) :
               fA \in BOOLEAN, f1 \in BOOLEAN, fa \in BOOLEAN, fb \in BOOLEAN,
               f2 \in BOOLEAN}

\* The questUpdates the model may send.
SentQuestUpdates ==
    {QuestUpdate(questTitle, objectiveText, newStatus) :
        questTitle \in {"Q", "no such quest"},
        objectiveText \in {"A", "A1", "A1a", "A1b", "A2", "B", "no such objective"},
        newStatus \in {"", "completed", "failed"}}

QuestInit ==
    \E q \in SentQuests :
        /\ gameState = [InitialGameState(StartLore, StartScenario(0, <<>>))
                           EXCEPT !.quests = <<q>>]
        /\ profile = "quest"
        /\ levelUpModal = NotFollowed
        /\ loreGenerator = NotFollowed
        /\ isLoading = FALSE
        /\ proposedUpdate = <<>>
        /\ isLevelingUp = FALSE
        /\ calls = <<>>
        /\ images = {}
        /\ mounted = TRUE
        /\ crashed = FALSE
        /\ turnsStarted = 0
        /\ overridden = {}
        /\ last = Step("sent", <<>>, <<>>, <<>>)

\* The questUpdate branch of the final commit.
applyQuestUpdate ==
    \E questUpdate \in SentQuestUpdates :
        LET response == [BasePayload EXCEPT !.questUpdate = questUpdate]
        IN  /\ gameState' = [gameState EXCEPT
                                !.quests = ReconcileQuests(@, response)]
            /\ overridden' = OverriddenAfter(overridden, gameState.quests, response)
            /\ last' = Step("questUpdate", <<[gameState |-> gameState]>>,
                            <<response>>, <<>>)
            /\ UNCHANGED <<isLoading, proposedUpdate, isLevelingUp, calls, images,
                           mounted, crashed, turnsStarted, profile, levelUpModal, loreGenerator>>

QuestNext == applyQuestUpdate

QuestSpec == QuestInit /\ [][QuestNext]_vars

\* The questUpdate applied last, the quest list before it and after it.
QuestUpdated == last.kind = "questUpdate"
LastQuestUpdate == LastResponse.questUpdate[1]
QuestsBefore == last.call[1].gameState.quests
QuestsAfter == gameState.quests

\* Every objective without sub-objectives is completed.
RECURSIVE AllLeavesCompleted(_)
AllLeavesCompleted(objectives) ==
    \A i \in 1..Len(objectives) :
        IF objectives[i].subObjectives = <<>>
        THEN objectives[i].isCompleted
        ELSE AllLeavesCompleted(objectives[i].subObjectives)

\* The objectives of a tree, at every depth, whose text is the given one.
RECURSIVE Named(_, _)
Named(objectives, text) ==
    IF objectives = <<>> THEN {}
    ELSE (IF Head(objectives).text = text THEN {Head(objectives)} ELSE {})
            \cup Named(Head(objectives).subObjectives, text)
            \cup Named(Tail(objectives), text)

(***************************************************************************)
(* C11                                                                     *)
(***************************************************************************)
\* C11: after a questUpdate without newStatus was applied to a quest, the
\* quest is completed if every leaf objective of it is completed.
C11_LeavesDoneMeansCompleted ==
    (QuestUpdated /\ LastQuestUpdate.newStatus = "") =>
        \A i \in 1..Len(QuestsAfter) :
            (/\ QuestsAfter[i].title = LastQuestUpdate.questTitle
             /\ AllLeavesCompleted(QuestsAfter[i].objectives))
                => QuestsAfter[i].status = "completed"

(***************************************************************************)
(* C12                                                                     *)
(***************************************************************************)
\* C12: a questUpdate whose objectiveText names objectives that are all
\* completed already leaves the objective tree of the quest as it was, and
\* applying a questUpdate a second time changes nothing in the tree.
C12_CompletionIdempotent ==
    QuestUpdated =>
        \A i \in 1..Len(QuestsAfter) :
            LET before == QuestsBefore[i].objectives
                after == QuestsAfter[i].objectives
                named == Named(before, LastQuestUpdate.objectiveText)
            IN  /\ (named # {} /\ \A o \in named : o.isCompleted) => after = before
                /\ UpdateQuest(QuestsAfter[i], LastQuestUpdate).objectives = after

\* A questUpdate has named the completed objective A of a quest whose
\* sub-objectives are not completed, and the tree is as it was.
C12_Witness ==
    /\ QuestUpdated
    /\ LastQuestUpdate.questTitle = "Q"
    /\ LastQuestUpdate.objectiveText = "A"
    /\ QuestsBefore[1].objectives[1].isCompleted
    /\ ~QuestsBefore[1].objectives[1].subObjectives[1].isCompleted
    /\ QuestsAfter[1].objectives = QuestsBefore[1].objectives

(***************************************************************************)
(* C13                                                                     *)
(***************************************************************************)
\* C13: a questUpdate without newStatus whose objectiveText matches no
\* objective of the titled quest changes neither the objectives nor the
\* status of that quest.
C13_NoMatchNoChange ==
    (/\ QuestUpdated
     /\ LastQuestUpdate.newStatus = "")
        => \A i \in 1..Len(QuestsAfter) :
               (/\ QuestsBefore[i].title = LastQuestUpdate.questTitle
                /\ Named(QuestsBefore[i].objectives, LastQuestUpdate.objectiveText) = {})
                   => QuestsAfter[i] = QuestsBefore[i]

(***************************************************************************)
(* C14                                                                     *)
(***************************************************************************)
\* The xpGained of the response of the last turn, << >> when absent.
LastXpGained ==
    IF LastCall.payload.characterUpdate = <<>> THEN <<>>
    ELSE LastCall.payload.characterUpdate[1].xpGained

\* C14: after a successful turn with a positive xpGained the xp is the xp
\* of before plus xpGained, and a level-up is pending exactly when it has
\* reached xpToNextLevel; with xpGained absent, zero or negative the xp is
\* the xp of before and no level-up is pending.
C14_XpOnlyWhenPositive ==
    TurnCommitted =>
        LET before == StateAtSubmit.scenario.character
            after == gameState.scenario.character
        IN  IF LastXpGained # <<>> /\ LastXpGained[1] > 0
            THEN /\ after.xp = before.xp + LastXpGained[1]
                 /\ isLevelingUp <=> after.xp >= after.xpToNextLevel
            ELSE /\ after.xp = before.xp
                 /\ ~isLevelingUp

(***************************************************************************)
(* The level-up dialog by itself: a game in which a level-up is pending,   *)
(* the points being allocated in LevelUpModal and confirmed.               *)
(***************************************************************************)
\* useState(10) of points, and the units a point adds to a maximum.
InitialPoints == 10
StatPerPoint == 5

\* useState of LevelUpModal.
FreshModal ==
    [points |-> InitialPoints, healthInc |-> 0, manaInc |-> 0, staminaInc |-> 0]

\* The characters whose level-up is pending: xp and xpToNextLevel.
LevelUpCharacters ==
    {[StartCharacter(xp) EXCEPT !.xpToNextLevel = xpToNextLevel] :
        <<xp, xpToNextLevel>> \in {<<105, 100>>, <<300, 100>>, <<225, 225>>, <<340, 337>>}}

ModalInit ==
    \E character \in LevelUpCharacters :
        /\ gameState = [InitialGameState(StartLore, StartScenario(0, <<>>))
                           EXCEPT !.scenario.character = character]
        /\ isLevelingUp = TRUE
        /\ levelUpModal = FreshModal
        /\ loreGenerator = NotFollowed
        /\ profile = "state"
        /\ isLoading = FALSE
        /\ proposedUpdate = <<>>
        /\ calls = <<>>
        /\ images = {}
        /\ mounted = TRUE
        /\ crashed = FALSE
        /\ turnsStarted = 0
        /\ overridden = {}
        /\ last = Did("pending")

\* The buttons of the three maxima; they are disabled when no point is left.
handleIncrease(stat) ==
    /\ Alive
    /\ isLevelingUp
    /\ levelUpModal.points # 0
    /\ levelUpModal' =
           IF levelUpModal.points > 0
           THEN [levelUpModal EXCEPT
                    !.points = @ - 1,
                    !.healthInc = IF stat = "health" THEN @ + StatPerPoint ELSE @,
                    !.manaInc = IF stat = "mana" THEN @ + StatPerPoint ELSE @,
                    !.staminaInc = IF stat = "stamina" THEN @ + StatPerPoint ELSE @]
           ELSE levelUpModal
    /\ last' = Did("increase")
    /\ UNCHANGED <<gameState, isLoading, proposedUpdate, isLevelingUp, calls, images,
                   mounted, crashed, turnsStarted, profile, loreGenerator, overridden>>

\* Mutant of ConfirmDisabled: the Confirm button is never disabled.
ConfirmNeverDisabled == FALSE

\* The disabled attribute of the Confirm button.
ConfirmDisabled == levelUpModal.points > 0

\* The Confirm button: onConfirm is handleLevelUpConfirm, after which the
\* dialog is gone; it starts from its initial state when shown again.
handleConfirm ==
    /\ Alive
    /\ isLevelingUp
    /\ ~ConfirmDisabled
    /\ gameState' = [gameState EXCEPT !.scenario.character =
                        LeveledUp(@, StatIncreases(levelUpModal.healthInc,
                                                   levelUpModal.manaInc,
                                                   levelUpModal.staminaInc))]
    /\ isLevelingUp' = FALSE
    /\ levelUpModal' = FreshModal
    /\ last' = Step("levelUp", <<[gameState |-> gameState, levelUpModal |-> levelUpModal]>>,
                    <<>>, <<>>)
    /\ UNCHANGED <<isLoading, proposedUpdate, calls, images, mounted, crashed,
                   turnsStarted, profile, loreGenerator, overridden>>

\* GameScreen renders again while the dialog is shown.  LevelUpModal is
\* defined in the body of GameScreen, so every render of GameScreen gives
\* a new component type and the dialog is mounted anew.
LevelUpModalRemounts ==
    /\ Alive
    /\ isLevelingUp
    /\ levelUpModal # FreshModal
    /\ levelUpModal' = FreshModal
    /\ last' = Did("remount")
    /\ UNCHANGED <<gameState, isLoading, proposedUpdate, isLevelingUp, calls, images,
                   mounted, crashed, turnsStarted, profile, loreGenerator, overridden>>

ModalNext ==
    \/ \E stat \in {"health", "mana", "stamina"} : handleIncrease(stat)
    \/ handleConfirm
    \/ LevelUpModalRemounts

ModalSpec == ModalInit /\ [][ModalNext]_vars

(***************************************************************************)
(* C15                                                                     *)
(***************************************************************************)
\* C15: confirming a level-up with the increases h, m, s adds one to the
\* level, takes the old xpToNextLevel off the xp, makes xpToNextLevel the
\* floor of one and a half times its old value, adds h, m, s to the three
\* maxima, sets health, mana and stamina to the new maxima and ends the
\* level-up.
C15_LevelUpArithmetic ==
    [][last'.kind = "levelUp"
         => LET old == gameState.scenario.character
                new == gameState'.scenario.character
            IN  /\ new.level = old.level + 1
                /\ new.xp = old.xp - old.xpToNextLevel
                /\ 2 * new.xpToNextLevel <= 3 * old.xpToNextLevel
                /\ 3 * old.xpToNextLevel < 2 * new.xpToNextLevel + 2
                /\ new.maxHealth = old.maxHealth + levelUpModal.healthInc
                /\ new.maxMana = old.maxMana + levelUpModal.manaInc
                /\ new.maxStamina = old.maxStamina + levelUpModal.staminaInc
                /\ new.health = new.maxHealth
                /\ new.mana = new.maxMana
                /\ new.stamina = new.maxStamina
                /\ new.name = old.name
                /\ ~isLevelingUp']_vars

\* The example of the claim: xp 105 at threshold 100, confirmed with 50
\* more health, gives xp 5 at threshold 150.
C15_Witness ==
    /\ last.kind = "levelUp"
    /\ last.call[1].gameState.scenario.character.xp = 105
    /\ last.call[1].levelUpModal.healthInc = 50
    /\ gameState.scenario.character.xp = 5
    /\ gameState.scenario.character.xpToNextLevel = 150
    /\ gameState.scenario.character.maxHealth = 150
    /\ gameState.scenario.character.health = 150
    /\ gameState.scenario.character.level = 2
    /\ ~isLevelingUp

(***************************************************************************)
(* C16                                                                     *)
(***************************************************************************)
\* The sum of the three maxima of a character.
SumOfMaxima(character) ==
    character.maxHealth + character.maxMana + character.maxStamina

\* C16: while a level-up is pending five times the points left plus the
\* three increases is 50 and every increase is a multiple of 5 that is not
\* negative; a level-up is confirmed only with no point left, and the
\* confirmation adds exactly 50 to the sum of the three maxima.
C16_AllPointsAllocated ==
    /\ [](isLevelingUp =>
            /\ levelUpModal.points \in 0..10
            /\ 5 * levelUpModal.points + levelUpModal.healthInc
                   + levelUpModal.manaInc + levelUpModal.staminaInc = 50
            /\ \A inc \in {levelUpModal.healthInc, levelUpModal.manaInc,
                           levelUpModal.staminaInc} :
                   inc >= 0 /\ inc % 5 = 0)
    /\ [][last'.kind = "levelUp"
            => /\ levelUpModal.points = 0
               /\ SumOfMaxima(gameState'.scenario.character)
                      = SumOfMaxima(gameState.scenario.character) + 50]_vars

\* A level-up was confirmed with the points spread over the three maxima.
C16_Witness ==
    /\ last.kind = "levelUp"
    /\ last.call[1].levelUpModal =
           [points |-> 0, healthInc |-> 20, manaInc |-> 15, staminaInc |-> 15]
    /\ gameState.scenario.character.maxHealth = 120
    /\ gameState.scenario.character.maxMana = 65
    /\ gameState.scenario.character.maxStamina = 95

(***************************************************************************)
(* C17                                                                     *)
(***************************************************************************)
\* C17: a loreUpdate of a turn result is staged by the turn and the turn
\* leaves the lore as it was; the lore changes in no step but an accept; a
\* reject changes nothing in the game state; accept and reject both clear
\* the staged update, after which a submit is held back only by a pending
\* level-up or the end of the game.
C17_LoreStagedUntilAccept ==
    /\ [][last'.kind = "committed"
            => /\ gameState'.lore = gameState.lore
               /\ last'.call[1].payload.loreUpdate # <<>>
                     => proposedUpdate' = last'.call[1].payload.loreUpdate]_vars
    /\ [][gameState'.lore # gameState.lore => last'.kind = "accept"]_vars
    /\ [][last'.kind = "reject" => gameState' = gameState]_vars
    /\ [][last'.kind \in {"accept", "reject"}
            => /\ proposedUpdate # <<>>
               /\ proposedUpdate' = <<>>
               /\ (~isLevelingUp' /\ ~gameState'.isGameOver) => ~SomeGateClosed']_vars

\* An update staged by a turn has been rejected and the lore is the lore of
\* the start.
C17_Witness ==
    /\ last.kind = "reject"
    /\ turnsStarted >= 1
    /\ proposedUpdate = <<>>
    /\ gameState.lore = StartLore
    /\ ~isLoading

(***************************************************************************)
(* The lore decisions by themselves: lore updates are staged as a turn     *)
(* stages them and are accepted or rejected.                               *)
(***************************************************************************)
\* Number of lore updates staged in a session.
MaxStaged == 3

SentNames == {"Keep", "Cave"}
SentDescriptions == {"an old keep", "a damp cave"}

\* The loreUpdates the model may send.
SentLoreUpdates ==
    {LoreUpdate(type, name, description) :
        type \in {"location", "character", "knowledge"},
        name \in SentNames, description \in SentDescriptions}

LoreInit ==
    /\ gameState = InitialGameState(StartLore, StartScenario(0, <<>>))
    /\ proposedUpdate = <<>>
    /\ turnsStarted = 0
    /\ levelUpModal = NotFollowed
    /\ loreGenerator = NotFollowed
    /\ profile = "state"
    /\ isLoading = FALSE
    /\ isLevelingUp = FALSE
    /\ calls = <<>>
    /\ images = {}
    /\ mounted = TRUE
    /\ crashed = FALSE
    /\ overridden = {}
    /\ last = Did("start")

\* if (response.loreUpdate) setProposedUpdate(response.loreUpdate), of a
\* turn that changes nothing else.
stageLoreUpdate ==
    /\ Alive
    /\ GateOpen
    /\ turnsStarted < MaxStaged
    /\ \E loreUpdate \in SentLoreUpdates : proposedUpdate' = loreUpdate
    /\ turnsStarted' = turnsStarted + 1
    /\ last' = Did("staged")
    /\ UNCHANGED <<gameState, isLoading, isLevelingUp, calls, images, mounted, crashed,
                   profile, levelUpModal, loreGenerator, overridden>>

LoreNext ==
    \/ stageLoreUpdate
    \/ handleAcceptUpdate
    \/ handleRejectUpdate

LoreSpec == LoreInit /\ [][LoreNext]_vars

\* The names of the entries of a list of locations or characters.
NamesIn(list) == {list[i].name : i \in 1..Len(list)}

\* The knowledge strings that a name can head.
KnowledgeNamed(name) == {name \o ": " \o description : description \in SentDescriptions}

\* The lore holds an entry of the type of the update with the name of the
\* update.
NameRecorded(lore, u) ==
    CASE u.type = "location" -> u.name \in NamesIn(lore.locations)
      [] u.type = "character" -> u.name \in NamesIn(lore.characters)
      [] u.type = "knowledge" ->
             \E i \in 1..Len(lore.knowledge) : lore.knowledge[i] \in KnowledgeNamed(u.name)

\* No two entries of a list of locations or characters have one name.
NamesDistinct(list) ==
    \A i, j \in 1..Len(list) : list[i].name = list[j].name => i = j

(***************************************************************************)
(* C18                                                                     *)
(***************************************************************************)
\* C18 as stated: accepting an update whose name is the name of an entry recorded
\* for its type leaves the lore as it was, and no type ever holds two
\* entries with one name.
C18_DedupByName ==
    /\ [][(last'.kind = "accept" /\ NameRecorded(gameState.lore, proposedUpdate[1]))
            => gameState'.lore = gameState.lore]_vars
    /\ [](/\ NamesDistinct(gameState.lore.locations)
          /\ NamesDistinct(gameState.lore.characters)
          /\ \A i, j \in 1..Len(gameState.lore.knowledge) :
                 (\E name \in SentNames :
                      /\ gameState.lore.knowledge[i] \in KnowledgeNamed(name)
                      /\ gameState.lore.knowledge[j] \in KnowledgeNamed(name))
                     => i = j)

\* C18 amended: an accepted location or character whose name is recorded
\* for its type, and an accepted knowledge whose string (name, colon,
\* description) is recorded, leave the lore as it was; accepting the update
\* just accepted once more would change nothing; locations and characters
\* never hold two entries with one name, nor knowledge one string twice.
C18_DedupByNameOrContent ==
    /\ [][last'.kind = "accept"
            => LET u == proposedUpdate[1]
                   recorded ==
                       IF u.type = "knowledge"
                       THEN \E i \in 1..Len(gameState.lore.knowledge) :
                                gameState.lore.knowledge[i] = u.name \o ": " \o u.description
                       ELSE NameRecorded(gameState.lore, u)
               IN  /\ recorded => gameState'.lore = gameState.lore
                   /\ ~recorded => gameState'.lore # gameState.lore
                   /\ AcceptedLore(gameState'.lore, u) = gameState'.lore]_vars
    /\ [](/\ NamesDistinct(gameState.lore.locations)
          /\ NamesDistinct(gameState.lore.characters)
          /\ \A i, j \in 1..Len(gameState.lore.knowledge) :
                 gameState.lore.knowledge[i] = gameState.lore.knowledge[j] => i = j)

\* An update has just been accepted and the lore is still the lore of the
\* start: the update was a location named like the one recorded there.
C18_Witness ==
    /\ last.kind = "accept"
    /\ turnsStarted >= 1
    /\ proposedUpdate = <<>>
    /\ gameState.lore = StartLore

(***************************************************************************)
(* C19                                                                     *)
(***************************************************************************)
\* C19: after a successful turn isGameOver and gameOverMessage are those of
\* the turn result; once the game is over it stays over, no turn starts,
\* none is in flight, and inventory, location, objective and quests stay
\* as they are.
C19_GameOverIsTerminal ==
    /\ [](TurnCommitted =>
            /\ gameState.isGameOver = LastCall.payload.isGameOver
            /\ gameState.gameOverMessage = LastCall.payload.gameOverMessage)
    /\ [](gameState.isGameOver => calls = <<>> /\ ~isLoading)
    /\ [][gameState.isGameOver
            => /\ gameState'.isGameOver
               /\ gameState'.gameOverMessage = gameState.gameOverMessage
               /\ turnsStarted' = turnsStarted
               /\ calls' = calls
               /\ gameState'.inventory = gameState.inventory
               /\ gameState'.currentLocation = gameState.currentLocation
               /\ gameState'.objective = gameState.objective
               /\ gameState'.quests = gameState.quests]_vars

\* The game is over, a usable item is held, turns are left to start, and
\* a submit or an item use has just been turned away.
C19_Witness ==
    /\ gameState.isGameOver
    /\ gameState.gameOverMessage = "You died"
    /\ gameState.inventory = <<Potion>>
    /\ turnsStarted < MaxTurns
    /\ last.kind = "rejected"

(***************************************************************************)
(* LoreGenerator: the world-generation wizard.  Its handlers are async;    *)
(* pending holds the handler that has not returned and the call it waits   *)
(* for.  A part of the lore that is not there yet is << >>.                *)
(***************************************************************************)
Faction(name, sigilImageUrl) == [name |-> name, sigilImageUrl |-> sigilImageUrl]

\* The faction lists that generateLoreFactions may return.
SentFactionLists ==
    {<<>>, <<Faction("Order", "")>>, <<Faction("Order", ""), Faction("Guild", "")>>}

\* generateSigilImage returns the data URL of the image, or the empty
\* string when anything in it threw.
SigilResults == {"data:image/png;base64,sigil", ""}

\* The message of the error each service call throws when it fails.
ServiceError(call) ==
    CASE call = "foundation" ->
             "Failed to forge the world's foundation. The cosmic energies are unstable."
      [] call = "factions" -> "Failed to raise the factions. The banners are in disarray."
      [] call = "cosmology" -> "Failed to chart the heavens. The stars are scattered."
      [] call = "magicSystem" ->
             "Failed to weave the arcane arts. The ley lines are tangled."
      [] call = "inhabitants" -> "Failed to populate the world. The lands are barren."
      [] call = "finalDetails" ->
             "Failed to uncover the world's secrets. The maps are unreadable."

\* What the user can have typed in a prompt field, as a sequence of
\* characters: nothing, a blank, a word.
InputTexts == {<<>>, <<" ">>, <<"w">>}
InputFields == {"spark", "conflict", "anomaly", "detailedPrompt"}

\* String.prototype.trim
RECURSIVE Trim(_)
Trim(text) ==
    IF text = <<>> THEN <<>>
    ELSE IF Head(text) = " " THEN Trim(Tail(text))
    ELSE IF text[Len(text)] = " " THEN Trim(SubSeq(text, 1, Len(text) - 1))
    ELSE text
InputsError == <<"Please fill out all creative prompts to begin.">>

EmptyBuilder ==
    [foundation |-> <<>>, factions |-> <<>>, cosmology |-> <<>>,
     magicSystem |-> <<>>, inhabitants |-> <<>>]

\* useState of LoreGenerator.
InitialLoreGenerator ==
    [step |-> "inputs", loreBuilder |-> EmptyBuilder, finalLore |-> <<>>,
     inputMode |-> "simple",
     inputs |-> [field \in InputFields |-> <<>>],
     generatedAnomaly |-> <<>>, isLoading |-> FALSE, error |-> <<>>,
     pending |-> <<>>, orphans |-> 0, created |-> <<>>]

WizardInit ==
    /\ loreGenerator = InitialLoreGenerator
    /\ gameState = NotFollowed
    /\ levelUpModal = NotFollowed
    /\ profile = "wizard"
    /\ isLoading = FALSE
    /\ proposedUpdate = <<>>
    /\ isLevelingUp = FALSE
    /\ calls = <<>>
    /\ images = {}
    /\ mounted = FALSE
    /\ crashed = FALSE
    /\ turnsStarted = 0
    /\ overridden = {}
    /\ last = Did("wizard")

\* A step of the wizard: the new local state and the kind of the step.
WizardStep(kind, new) ==
    /\ loreGenerator' = new
    /\ last' = Did(kind)
    /\ UNCHANGED <<gameState, isLoading, proposedUpdate, isLevelingUp, calls, images,
                   mounted, crashed, turnsStarted, profile, levelUpModal, overridden>>

\* The requests to the text model that a service call issues at once:
\* generateFinalLoreDetails issues two and awaits both, every other service
\* call issues one.
ModelCalls(call) ==
    IF call = "finalDetails" THEN {"locations", "secrets"} ELSE {call}

\* A handler starts: setIsLoading(true), setError(null), and the call.  The
\* handler keeps the loreBuilder of the render it was created in; from is
\* the step shown when it was clicked.
Started(handler, call) ==
    [loreGenerator EXCEPT !.isLoading = TRUE, !.error = <<>>,
                          !.pending = <<[handler |-> handler, call |-> call,
                                         outstanding |-> ModelCalls(call),
                                         from |-> loreGenerator.step,
                                         loreBuilder |-> loreGenerator.loreBuilder,
                                         i |-> 0, factions |-> <<>>]>>]

\* A screen of the wizard is shown and its buttons are not disabled.
Shown(step) ==
    /\ loreGenerator.created = <<>>
    /\ loreGenerator.step = step
    /\ ~loreGenerator.isLoading

Waiting(handler, call) ==
    /\ loreGenerator.pending # <<>>
    /\ loreGenerator.pending[1].handler = handler
    /\ loreGenerator.pending[1].call = call

\* Mutant of Failed: the catch block does not set the step.
FailedWithoutRevert(step) ==
    [loreGenerator EXCEPT !.error = <<ServiceError(loreGenerator.pending[1].call)>>,
                          !.isLoading = FALSE, !.pending = <<>>]

\* The catch block and the finally block of a handler.
Failed(step) ==
    [loreGenerator EXCEPT !.error = <<ServiceError(loreGenerator.pending[1].call)>>,
                          !.step = step,
                          !.isLoading = FALSE, !.pending = <<>>]

\* The two buttons of the input mode; they are not disabled while loading.
setInputMode ==
    /\ loreGenerator.created = <<>>
    /\ loreGenerator.step = "inputs"
    /\ \E mode \in {"simple", "detailed"} :
           /\ mode # loreGenerator.inputMode
           /\ WizardStep("inputMode", [loreGenerator EXCEPT !.inputMode = mode])

\* The fields of the shown mode.
FieldsOf(mode) ==
    IF mode = "simple" THEN {"spark", "conflict", "anomaly"} ELSE {"detailedPrompt"}

\* onChange of a prompt field of the shown mode.
onChange ==
    /\ Shown("inputs")
    /\ \E field \in FieldsOf(loreGenerator.inputMode), text \in InputTexts :
           /\ text # loreGenerator.inputs[field]
           /\ WizardStep("input", [loreGenerator EXCEPT !.inputs[field] = text])

\* The check at the head of handleStartWeaving.
InputsMissing ==
    \E field \in FieldsOf(loreGenerator.inputMode) : Trim(loreGenerator.inputs[field]) = <<>>

handleStartWeaving ==
    /\ Shown("inputs")
    /\ IF InputsMissing
       THEN WizardStep("inputsMissing", [loreGenerator EXCEPT !.error = InputsError])
       ELSE WizardStep("start", Started("handleStartWeaving", "foundation"))

handleRerollFoundation ==
    /\ Shown("foundation_review")
    /\ WizardStep("reroll", Started("handleRerollFoundation", "foundation"))

\* generateLoreFoundation returned, to either handler.
FoundationReturns ==
    \E handler \in {"handleStartWeaving", "handleRerollFoundation"} :
        /\ Waiting(handler, "foundation")
        /\ WizardStep("foundation",
               [loreGenerator EXCEPT
                   !.loreBuilder = [EmptyBuilder EXCEPT !.foundation = <<"foundation">>],
                   !.generatedAnomaly = <<"anomaly">>,
                   !.step = "foundation_review",
                   !.isLoading = FALSE, !.pending = <<>>])

\* generateLoreFoundation threw: the step stays what it is.
FoundationThrows ==
    \E handler \in {"handleStartWeaving", "handleRerollFoundation"} :
        /\ Waiting(handler, "foundation")
        /\ WizardStep("failed", Failed(loreGenerator.step))

handleAcceptFoundation ==
    /\ Shown("foundation_review")
    /\ WizardStep("acceptFoundation", Started("handleAcceptFoundation", "factions"))

\* The finally block of a handler that did not throw.
Finished(state) == [state EXCEPT !.isLoading = FALSE, !.pending = <<>>]

\* generateLoreFactions returned: the factions are shown for review and the
\* emblem loop starts on the handler's own copy of the list.
FactionsReturn ==
    /\ Waiting("handleAcceptFoundation", "factions")
    /\ \E baseFactions \in SentFactionLists :
         LET shown == [loreGenerator EXCEPT
                          !.loreBuilder.factions = <<baseFactions>>,
                          !.step = "factions_review"]
         IN  WizardStep("factions",
                 IF baseFactions = <<>>
                 THEN Finished(shown)
                 ELSE [shown EXCEPT !.pending =
                          <<[loreGenerator.pending[1] EXCEPT
                                !.call = "sigil", !.outstanding = {},
                                !.i = 1, !.factions = baseFactions]>>])

FactionsThrow ==
    /\ Waiting("handleAcceptFoundation", "factions")
    /\ WizardStep("failed", Failed("foundation_review"))

\* prev.factions?.map(f => f.name === updatedFaction.name ? updatedFaction : f)
WithSigil(factions, updatedFaction) ==
    [k \in 1..Len(factions) |->
        IF factions[k].name = updatedFaction.name THEN updatedFaction ELSE factions[k]]

\* One round of the emblem loop: generateSigilImage returned, with the image
\* or with the empty string, and the faction of that name gets the result.
SigilReturns ==
    /\ Waiting("handleAcceptFoundation", "sigil")
    /\ \E sigilImageUrl \in SigilResults :
         LET p == loreGenerator.pending[1]
             updatedFaction == [p.factions[p.i] EXCEPT !.sigilImageUrl = sigilImageUrl]
             stored == [loreGenerator EXCEPT
                           !.loreBuilder.factions =
                               <<WithSigil(loreGenerator.loreBuilder.factions[1],
                                           updatedFaction)>>]
         IN  WizardStep("sigil",
                 IF p.i = Len(p.factions)
                 THEN Finished(stored)
                 ELSE [stored EXCEPT !.pending = <<[p EXCEPT !.i = p.i + 1]>>])

\* loreBuilder.factions?.some(f => !f.sigilImageUrl) ?? true
SomeFactionWithoutSigil ==
    IF loreGenerator.loreBuilder.factions = <<>> THEN TRUE
    ELSE \E k \in 1..Len(loreGenerator.loreBuilder.factions[1]) :
             loreGenerator.loreBuilder.factions[1][k].sigilImageUrl = ""

\* The disabled attribute of the only button of the factions review.
AcceptFactionsDisabled == loreGenerator.isLoading \/ SomeFactionWithoutSigil

handleAcceptFactions ==
    /\ Shown("factions_review")
    /\ ~AcceptFactionsDisabled
    /\ WizardStep("acceptFactions", Started("handleAcceptFactions", "cosmology"))

\* Mutant of CosmologyReturns: the cosmology is stored as soon as it is
\* there.
CosmologyReturnsCommitting ==
    /\ Waiting("handleAcceptFactions", "cosmology")
    /\ WizardStep("cosmology",
           [loreGenerator EXCEPT !.loreBuilder.cosmology = <<"cosmology">>,
                                 !.pending[1].call = "magicSystem",
                                 !.pending[1].outstanding = ModelCalls("magicSystem")])

CosmologyReturns ==
    /\ Waiting("handleAcceptFactions", "cosmology")
    /\ WizardStep("cosmology",
           [loreGenerator EXCEPT !.pending[1].call = "magicSystem",
                                 !.pending[1].outstanding = ModelCalls("magicSystem")])

\* Both systems are committed together once the second call returned.
MagicSystemReturns ==
    /\ Waiting("handleAcceptFactions", "magicSystem")
    /\ WizardStep("systems",
           Finished([loreGenerator EXCEPT
                        !.loreBuilder.cosmology = <<"cosmology">>,
                        !.loreBuilder.magicSystem = <<"magicSystem">>,
                        !.step = "systems_review"]))

SystemsThrow ==
    /\ \E call \in {"cosmology", "magicSystem"} : Waiting("handleAcceptFactions", call)
    /\ WizardStep("failed", Failed("factions_review"))

handleAcceptSystems ==
    /\ Shown("systems_review")
    /\ WizardStep("acceptSystems", Started("handleAcceptSystems", "inhabitants"))

InhabitantsReturn ==
    /\ Waiting("handleAcceptSystems", "inhabitants")
    /\ WizardStep("inhabitants",
           Finished([loreGenerator EXCEPT
                        !.loreBuilder.inhabitants = <<"inhabitants">>,
                        !.step = "inhabitants_review"]))

InhabitantsThrow ==
    /\ Waiting("handleAcceptSystems", "inhabitants")
    /\ WizardStep("failed", Failed("systems_review"))

handleFinalizeWorld ==
    /\ Shown("inhabitants_review")
    /\ WizardStep("finalize",
           [Started("handleFinalizeWorld", "finalDetails") EXCEPT !.step = "finalizing"])

\* One of the two requests of generateFinalLoreDetails returned.  When both
\* have, Promise.all resolves: completeLore is the builder of the click with
\* the final details and the empty lists of runtime discoveries.
FinalDetailsReturn ==
    /\ Waiting("handleFinalizeWorld", "finalDetails")
    /\ \E request \in loreGenerator.pending[1].outstanding :
           IF loreGenerator.pending[1].outstanding = {request}
           THEN WizardStep("complete",
                    Finished([loreGenerator EXCEPT
                        !.finalLore = <<[builder |-> loreGenerator.pending[1].loreBuilder,
                                         locations |-> <<"locations">>,
                                         secrets |-> <<"secrets">>,
                                         characters |-> <<>>, knowledge |-> <<>>]>>,
                        !.step = "complete"]))
           ELSE WizardStep("finalDetail",
                    [loreGenerator EXCEPT !.pending[1].outstanding = @ \ {request}])

\* One of the two requests failed: Promise.all rejects at once, and the
\* other request, when it has not returned, stays outstanding with nobody
\* waiting for it.
FinalDetailsThrow ==
    /\ Waiting("handleFinalizeWorld", "finalDetails")
    /\ \E request \in loreGenerator.pending[1].outstanding :
           LET left == Cardinality(loreGenerator.pending[1].outstanding \ {request})
           IN  /\ loreGenerator.orphans + left <= MaxOrphans
               /\ WizardStep("failed",
                      [Failed("inhabitants_review") EXCEPT !.orphans = @ + left])

\* A request that nobody waits for returns or fails: nothing reads it.
OrphanSettles ==
    /\ loreGenerator.orphans > 0
    /\ WizardStep("orphan", [loreGenerator EXCEPT !.orphans = @ - 1])

\* The button of the finished lore hands it to the application.
onLoreCreated ==
    /\ Shown("complete")
    /\ loreGenerator.finalLore # <<>>
    /\ WizardStep("created", [loreGenerator EXCEPT !.created = loreGenerator.finalLore])

WizardNext ==
    \/ setInputMode
    \/ onChange
    \/ handleStartWeaving
    \/ handleRerollFoundation
    \/ FoundationReturns
    \/ FoundationThrows
    \/ handleAcceptFoundation
    \/ FactionsReturn
    \/ FactionsThrow
    \/ SigilReturns
    \/ handleAcceptFactions
    \/ CosmologyReturns
    \/ MagicSystemReturns
    \/ SystemsThrow
    \/ handleAcceptSystems
    \/ InhabitantsReturn
    \/ InhabitantsThrow
    \/ handleFinalizeWorld
    \/ FinalDetailsReturn
    \/ FinalDetailsThrow
    \/ OrphanSettles
    \/ onLoreCreated

WizardSpec == WizardInit /\ [][WizardNext]_vars

\* The emblem loop of handleAcceptFoundation has run to its end.
EmblemLoopFinished ==
    /\ loreGenerator.step = "factions_review"
    /\ loreGenerator.pending = <<>>
    /\ loreGenerator.created = <<>>

\* C20: after the emblem loop has finished, whatever emblems failed, the
\* factions can be accepted: the button that leads to systems_review is
\* not disabled.
C20_FailedEmblemDoesNotHalt == EmblemLoopFinished => ~AcceptFactionsDisabled

\* What the code does instead: systems_review and everything after it are
\* reached only with an emblem on every faction.
C20_StuckWithoutEmblem ==
    (loreGenerator.step \in {"systems_review", "inhabitants_review", "finalizing", "complete"})
        => ~SomeFactionWithoutSigil

(***************************************************************************)
(* Image side tasks and the story log                                      *)
(***************************************************************************)
\* The step is the failure of an image request, and the request that failed.
ImageFailure == last'.kind = "imageFailed" /\ images' # images
FailedRequests == images \ images'

\* The log without the placeholder that request r created.
WithoutPlaceholderOf(log, r) ==
    SelectEntries(log, [i \in 1..Len(log) |-> log[i].req # r])

\* C21: the failure of a scene image removes exactly the placeholder entry
\* created for that request and leaves every other entry of the story log,
\* placeholders of other requests included, in place.
C21_ImageFailureIsolated ==
    [][ImageFailure =>
          \A r \in FailedRequests :
              r >= 1 => gameState'.storyLog = WithoutPlaceholderOf(gameState.storyLog, r)]_vars

(***************************************************************************)
(* Properties of the wizard                                                *)
(***************************************************************************)
\* The step is the failure of a stage call; the handler that was waiting.
StageFailed == last'.kind = "failed"
FailedHandler == loreGenerator.pending[1]

\* The kinds of the steps that a click of the user makes.
UserTriggers ==
    {"start", "reroll", "acceptFoundation", "acceptFactions", "acceptSystems", "finalize"}

\* C22: when a stage call fails the wizard ends at the step from which the
\* stage was started, with an error message set, isLoading false and the
\* accumulated lore as it was when the stage started; no call is pending,
\* and a call is issued again only by a click of the user.
C22_StageFailureReverts ==
    [][/\ StageFailed =>
            /\ loreGenerator'.step = FailedHandler.from
            /\ loreGenerator'.error # <<>>
            /\ ~loreGenerator'.isLoading
            /\ loreGenerator'.loreBuilder = FailedHandler.loreBuilder
            /\ loreGenerator'.finalLore = loreGenerator.finalLore
            /\ loreGenerator'.pending = <<>>
       /\ (loreGenerator.pending = <<>> /\ loreGenerator'.pending # <<>>)
              => last'.kind \in UserTriggers]_vars

\* The final details failed: the wizard is back at the review of the
\* inhabitants with the message of that stage.
C22_Witness ==
    /\ last.kind = "failed"
    /\ loreGenerator.step = "inhabitants_review"
    /\ loreGenerator.error = <<ServiceError("finalDetails")>>
    /\ loreGenerator.loreBuilder.inhabitants # <<>>
    /\ ~loreGenerator.isLoading

(***************************************************************************)
(* Objective trees under a questUpdate                                     *)
(***************************************************************************)
\* The update marks an objective of the list, or of the lists below it,
\* that was not completed: an objective that is reached through objectives
\* of another text.
RECURSIVE Marks(_, _)
Marks(objectives, text) ==
    \E i \in 1..Len(objectives) :
        IF objectives[i].text = text THEN ~objectives[i].isCompleted
        ELSE Marks(objectives[i].subObjectives, text)

\* The marked objectives are completed, every objective above a newly
\* marked one is completed exactly when all of its direct sub-objectives
\* are, and every other objective is as it was.
RECURSIVE AncestorsFollow(_, _, _)
AncestorsFollow(before, after, text) ==
    /\ Len(after) = Len(before)
    /\ \A i \in 1..Len(before) :
           IF before[i].text = text
           THEN after[i] = [before[i] EXCEPT !.isCompleted = TRUE]
           ELSE IF Marks(before[i].subObjectives, text)
           THEN /\ after[i].text = before[i].text
                /\ after[i].isCompleted <=> EveryCompleted(after[i].subObjectives)
                /\ AncestorsFollow(before[i].subObjectives, after[i].subObjectives, text)
           ELSE after[i] = before[i]

\* C23: after a questUpdate has marked a sub-objective that was not
\* completed, every objective above the marked one is completed if and only
\* if all of its direct sub-objectives are completed, and the objectives
\* outside the changed path keep their flags.
C23_AncestorsFollowSubObjectives ==
    QuestUpdated =>
        \A i \in 1..Len(QuestsAfter) :
            QuestsBefore[i].title = LastQuestUpdate.questTitle =>
                AncestorsFollow(QuestsBefore[i].objectives, QuestsAfter[i].objectives,
                                LastQuestUpdate.objectiveText)

\* The update marked A1a, the last open objective below A1: A1 and A above
\* it were not completed and are completed now, and A2 and B are as before.
C23_Witness ==
    /\ QuestUpdated
    /\ LastQuestUpdate.questTitle = "Q"
    /\ LastQuestUpdate.objectiveText = "A1a"
    /\ LET a == QuestsBefore[1].objectives[1]
           b == QuestsAfter[1].objectives[1]
       IN  /\ Len(a.subObjectives[1].subObjectives) = 2
           /\ ~a.isCompleted
           /\ ~a.subObjectives[1].isCompleted
           /\ ~a.subObjectives[1].subObjectives[1].isCompleted
           /\ b.isCompleted
           /\ b.subObjectives[1].isCompleted
           /\ b.subObjectives[1].subObjectives[1].isCompleted
           /\ b.subObjectives[2] = a.subObjectives[2]
    /\ QuestsAfter[1].objectives[2] = QuestsBefore[1].objectives[2]

\* The requests to the text model that are outstanding in the wizard: those
\* the pending handler waits for and those left behind by a failed stage.
\* The requests of the emblems are image requests and are not counted.
OutstandingModelCalls ==
    loreGenerator.orphans
        + (IF loreGenerator.pending = <<>> THEN 0
           ELSE Cardinality(loreGenerator.pending[1].outstanding))

\* C24: at any time at most one request to the text model is outstanding.
C24_OneModelCallOutstanding == OutstandingModelCalls <= 1

\* Entry b stands where entry a stood and is the same line of the story,
\* as it was or with its text or its image updated.
SameLine(a, b) == a.type \in {b.type, "hole", "undefined"}

\* Every entry of the log is still there, at its position.
EntriesKept(before, after) ==
    /\ Len(after) >= Len(before)
    /\ \A i \in 1..Len(before) : SameLine(before[i], after[i])

\* The entries of the log that are not pending placeholders, in order; an
\* empty slot of the array is not an entry.
Settled(log) ==
    SelectEntries(log, [i \in 1..Len(log) |->
                           log[i].type # "hole" /\ ~log[i].imageIsLoading])

\* C25 as stated: across turns, image completions and image failures no
\* entry of the story log is removed and the order of the entries does not
\* change.
C25_AppendOnly ==
    [][EntriesKept(gameState.storyLog, gameState'.storyLog)]_vars

\* C25, amended: the failure of an image request takes the pending
\* placeholders out of the log and leaves the other entries as they are and
\* in their order; every other step keeps every entry at its position.
C25_AppendOnlyButPlaceholders ==
    [][IF ImageFailure
       THEN gameState'.storyLog = Settled(gameState.storyLog)
       ELSE EntriesKept(gameState.storyLog, gameState'.storyLog)]_vars

\* An image request has failed after a turn was started: its placeholder
\* is gone and the lines of the turn are in the log.
C25_Witness ==
    /\ last.kind = "imageFailed"
    /\ turnsStarted >= 1
    /\ Len(gameState.storyLog) >= 3
    /\ \A i \in 1..Len(gameState.storyLog) : ~gameState.storyLog[i].imageIsLoading
    /\ \E i \in 1..Len(gameState.storyLog) : gameState.storyLog[i].type = "player"

(***************************************************************************)
(* The lore during gameplay                                                *)
(***************************************************************************)
\* List after is list before with one entry pushed.
OnePushed(before, after) ==
    /\ Len(after) = Len(before) + 1
    /\ SubSeq(after, 1, Len(before)) = before

\* Exactly one of the three lists of discoveries got one entry, and the
\* rest of the lore is as it was.
OneDiscoveryAdded(before, after) ==
    \E field \in {"locations", "characters", "knowledge"} :
        /\ OnePushed(before[field], after[field])
        /\ after = [before EXCEPT ![field] = after[field]]

\* C26: during gameplay the lore changes only through handleAcceptUpdate,
\* and only by one entry pushed to locations, characters or knowledge;
\* every other field of the lore, and every field of the game state other
\* than the lore, is unchanged by accept and by reject.
C26_LoreChangesOnlyByAccept ==
    [][/\ gameState'.lore # gameState.lore =>
            /\ last'.kind = "accept"
            /\ OneDiscoveryAdded(gameState.lore, gameState'.lore)
       /\ last'.kind \in {"accept", "reject"} =>
            [gameState' EXCEPT !.lore = gameState.lore] = gameState]_vars

\* A piece of knowledge was accepted after a turn: it is the one entry of
\* knowledge, and the locations are those of the start.
C26_Witness ==
    /\ last.kind = "accept"
    /\ turnsStarted >= 1
    /\ gameState.lore.knowledge = <<"Rune: it glows">>
    /\ gameState.lore.locations = StartLore.locations
    /\ gameState.lore.worldName = StartLore.worldName

(***************************************************************************)
(* The experience of the character                                         *)
(***************************************************************************)
\* C27: whenever no level-up is pending, the xp of the character is not
\* negative and is below xpToNextLevel; in particular right after a
\* level-up was confirmed.
C27_XpBelowThreshold ==
    ~isLevelingUp =>
        /\ gameState.scenario.character.xp >= 0
        /\ gameState.scenario.character.xp < gameState.scenario.character.xpToNextLevel

\* No objective of the tree, at any depth, went from completed to not
\* completed.
RECURSIVE StaysCompleted(_, _)
StaysCompleted(before, after) ==
    /\ Len(after) = Len(before)
    /\ \A i \in 1..Len(before) :
           /\ before[i].isCompleted => after[i].isCompleted
           /\ StaysCompleted(before[i].subObjectives, after[i].subObjectives)

\* C28: across questUpdates an objective that is completed never becomes
\* not completed again.
C28_CompletionMonotone ==
    QuestUpdated =>
        \A i \in 1..Len(QuestsAfter) :
            StaysCompleted(QuestsBefore[i].objectives, QuestsAfter[i].objectives)

\* C29: an image is attached only to the placeholder that its own request
\* created, and a placeholder stays pending only while its own request is
\* in flight.
C29_ImageOnOwnPlaceholder ==
    \A i \in 1..Len(gameState.storyLog) :
        LET entry == gameState.storyLog[i]
        IN  /\ entry.imageUrl # <<>> => entry.imageUrl = ImageUrl(entry.req)
            /\ entry.imageIsLoading => entry.req \in images

\* The place of a step in the order of the wizard.
Rank(step) ==
    CASE step = "inputs" -> 1
      [] step = "foundation_review" -> 2
      [] step = "factions_review" -> 3
      [] step = "systems_review" -> 4
      [] step = "inhabitants_review" -> 5
      [] step = "finalizing" -> 6
      [] step = "complete" -> 7

\* The final lore holds every part of the world, and no discoveries.
WholeLore(finalLore) ==
    /\ finalLore # <<>>
    /\ finalLore[1].builder.foundation # <<>>
    /\ finalLore[1].builder.factions # <<>>
    /\ finalLore[1].builder.cosmology # <<>>
    /\ finalLore[1].builder.magicSystem # <<>>
    /\ finalLore[1].builder.inhabitants # <<>>
    /\ finalLore[1].locations # <<>>
    /\ finalLore[1].secrets # <<>>
    /\ finalLore[1].characters = <<>>
    /\ finalLore[1].knowledge = <<>>

\* C30: the wizard moves one step forward in the order inputs,
\* foundation_review, factions_review, systems_review, inhabitants_review,
\* finalizing, complete, and one step back only when a stage failed;
\* cosmology and magic system are in the lore together or not at all; at
\* the step complete the final lore is there and whole; and onLoreCreated
\* fires only from there, with that lore.
C30_WizardOrder ==
    [][/\ loreGenerator'.step # loreGenerator.step =>
            \/ Rank(loreGenerator'.step) = Rank(loreGenerator.step) + 1
            \/ /\ Rank(loreGenerator'.step) = Rank(loreGenerator.step) - 1
               /\ last'.kind = "failed"
       /\ (loreGenerator'.loreBuilder.cosmology = <<>>)
              <=> (loreGenerator'.loreBuilder.magicSystem = <<>>)
       /\ loreGenerator'.step = "complete" => WholeLore(loreGenerator'.finalLore)
       /\ loreGenerator'.created # loreGenerator.created =>
            /\ loreGenerator.step = "complete"
            /\ WholeLore(loreGenerator.finalLore)
            /\ loreGenerator'.created = loreGenerator.finalLore]_vars

\* The lore of a world with two factions was handed to the application
\* after the final details had failed once.
C30_Witness ==
    /\ last.kind = "created"
    /\ loreGenerator.created = loreGenerator.finalLore
    /\ loreGenerator.step = "complete"
    /\ Len(loreGenerator.created[1].builder.factions[1]) = 2
    /\ loreGenerator.orphans = 1

====
